---- MODULE Spec2Model ----
(***************************************************************************)
(* A model of prefect-oci: the registry client (provider/registry.py), the *)
(* platform and container models, the image-index assembler and the push   *)
(* and pull deployment steps.                                              *)
(*                                                                         *)
(* JSON documents are functions from key strings to values; a key that is  *)
(* absent from a Python dict is absent from the function's DOMAIN.  Python *)
(* None is the string None.                                                *)
(***************************************************************************)
EXTENDS Integers, Sequences, FiniteSets, TLC

VARIABLES
    \* Registry.pull (provider/registry.py)
    pullPc,         \* position inside Registry.pull
    pullTarget,     \* the container parsed from `target`
    container,      \* the local variable `container` of Registry.pull
    indexResponse,  \* the registry's answer to the image-index GET
    index,          \* the local variable `index` (bound once retrieved)
    platform,       \* the local variable `platform` (bound once detected)
    scanPos,        \* position of the for loop over index["manifests"]
    examined,       \* positions of index["manifests"] examined so far
    requested,      \* the reference string handed to super().pull (<<>>: none yet)
    pullError,      \* the exception that left Registry.pull, or None
    \* push_oci_image (deployments/steps/push.py) and the registry it talks to
    pushPc,         \* position inside push_oci_image
    layers,         \* the argument `layers`
    manifests,      \* the local list `manifests`
    platformPos,    \* position of `for platform in layers`
    pushResponses,  \* the responses client.push returned, in call order
    indexUpload,    \* image_index_response (NoResponse until the index PUT)
    pushResult,     \* the returned dictionary (EmptyDict: none)
    pushError,      \* the exception that left push_oci_image, or None
    registryStyle,  \* which headers the registry puts on an upload response
    stored,         \* the manifests the registry holds; position = digest
    requests,       \* the requests the registry received, in order
    pushArgs,       \* the arguments credentials and client_kwargs of the call
    pushClientCalls,\* the calls of resolve_credentials, Registry(...) and
                    \* client.login made by push_oci_image, in order
    \* direct calls of the Registry methods (provider/registry.py)
    regCalls,       \* number of calls made
    lastCall,       \* the last call: its arguments and its outcome
    wire,           \* the documents sent by PUT, in order
    returned,       \* the documents get_manifest returned, in order
    \* direct calls of the Platform methods (provider/platform.py) and of
    \* PlatformManifest validation (deployments/steps/push.py)
    platCalls,      \* number of calls made
    platCall,       \* the last call: its arguments and its outcome
    \* Container.with_new_digest (provider/container.py) and its caller
    contPc,         \* "idle", "created", "returned", "changed"
    contHeap,       \* the Container objects: object id -> fields
    contOriginal,   \* the object id of `original` (0: none)
    contResult,     \* the object id with_new_digest returned (0: none)
    contDigest,     \* the argument `digest`
    contSnapshot,   \* the fields of `original` when with_new_digest was called
    contChanges,    \* number of attribute assignments made to the result
    \* direct calls of create_oci_image_index_manifest (provider/image.py)
    imgCalls,       \* number of calls made
    imgCall,        \* the last call: its argument and the index returned
    \* direct calls of resolve_credentials and _get_ecr_token (provider/auth.py)
    authCalls,      \* number of calls made
    authCall,       \* the last call: its arguments, the cloud provider's
                    \* behaviour during it, and its outcome
    \* pull_oci_image (deployments/steps/pull.py)
    stepPc,         \* "idle", "resolved", "client", "done", "raised"
    stepArgs,       \* the arguments name, tag, path, credentials, client_kwargs
    stepLocals,     \* path, username, password, registry_url, auth_backend
    stepEvents,     \* the calls made to resolve_credentials, Registry and
                    \* the client, in order
    stepResult,     \* the returned dictionary (EmptyDict: none)
    stepError,      \* the exception that left pull_oci_image, or None
    \* create_tar_archive (deployments/steps/build.py) and make_targz
    \* (utils/archive.py)
    buildPc,        \* "idle", "called", "done", "raised"
    buildArgs,      \* sources, archive_root, working_directory, and the
                    \* included_files read from the ignore file
    buildEntries,   \* the members written to the tar stream, in order
    buildResult,    \* the returned dictionary (EmptyDict: none)
    buildError,     \* the exception that left create_tar_archive, or None
    \* successive make_targz calls writing to one destination path
    \* (utils/archive.py)
    archCalls,      \* number of calls made
    archPrev,       \* the call before the last one
    archLast,       \* the last call: its inputs, the bytes of the archive it
                    \* built, the destination file before and after it
    archDest,       \* the content of the destination file (<<>>: no file)
    \* one install_dependencies_for_archiving call (deployments/steps/build.py)
    instPc,         \* "idle", "called", "done"
    instArgs,       \* the arguments and what shutil.which("uv") finds
    instProcesses,  \* the run_process calls made, in order
    \* interleaved create_oci_image_index_manifest calls (provider/image.py)
    idxHeap,        \* the dict objects: reference 0 is the module-level
                    \* EmptyImageIndex, reference c the index of caller c
    idxCalls,       \* per caller: position in the function, its manifests
                    \* argument, the loop position, its image_index reference
    \* one LoggerWriter (deployments/logging.py)
    logState,       \* "none", "open" (constructed), "closed"
    logLevel,       \* self.level
    logBuf,         \* self._buf, a sequence of characters
    logLogged,      \* the logger.log calls made, in order
    logWrites,      \* the messages written so far, in order
    logReturn       \* what the last write returned

pullVars == <<pullPc, pullTarget, container, indexResponse, index, platform, scanPos,
              examined, requested, pullError>>

pushVars == <<pushPc, layers, manifests, platformPos, pushResponses,
              indexUpload, pushResult, pushError, registryStyle, stored,
              requests>>

pushCallVars == <<pushArgs, pushClientCalls>>

regVars == <<regCalls, lastCall, wire, returned>>

platVars == <<platCalls, platCall>>

contVars == <<contPc, contHeap, contOriginal, contResult, contDigest,
              contSnapshot, contChanges>>

imgVars == <<imgCalls, imgCall>>

authVars == <<authCalls, authCall>>

stepVars == <<stepPc, stepArgs, stepLocals, stepEvents, stepResult, stepError>>

buildVars == <<buildPc, buildArgs, buildEntries, buildResult, buildError>>

archVars == <<archCalls, archPrev, archLast, archDest>>

instVars == <<instPc, instArgs, instProcesses>>

idxVars == <<idxHeap, idxCalls>>

logVars == <<logState, logLevel, logBuf, logLogged, logWrites, logReturn>>

vars == <<pullVars, pushVars, pushCallVars, regVars, platVars, contVars, imgVars,
          authVars, stepVars, buildVars, archVars,
          instVars,
          idxVars,
          logVars>>

None == "None"

\* dict.get(key) of Python: None for an absent key.
Get(d, k) == IF k \in DOMAIN d THEN d[k] ELSE None

\* The empty dict {}.
EmptyDict == [k \in {} |-> None]

\* The values of locals that are not bound yet.
NoContainer == [name |-> None, tag |-> None, digest |-> None]
NoPlatform == [os |-> None, architecture |-> None, variant |-> None]
NoResponse == [status_code |-> 0, json |-> EmptyDict, headers |-> EmptyDict]

(***************************************************************************)
(* Bounds of the model.                                                    *)
(***************************************************************************)
MaxManifests == 2
MaxPlatforms == 2
MaxCalls == 2
MaxStrLen == 5
MaxSources == 2
MaxWrites == 2
MaxChunk == 2

(***************************************************************************)
(* provider/platform.py                                                    *)
(***************************************************************************)

\* is_match without the comparison of the variant.
is_match_ignores_variant(self, other) ==
    /\ (Get(other, "os") = None \/ self.os = Get(other, "os"))
    /\ (Get(other, "architecture") = None
            \/ self.architecture = Get(other, "architecture"))

\* is_match that accepts as soon as one field agrees.
is_match_any_field(self, other) ==
    \/ (Get(other, "os") = None \/ self.os = Get(other, "os"))
    \/ (Get(other, "architecture") = None
            \/ self.architecture = Get(other, "architecture"))
    \/ (Get(other, "variant") = None \/ self.variant = Get(other, "variant"))

\* Platform.is_match: every field of `other` is absent (None) or equal.
is_match(self, other) ==
    /\ (Get(other, "os") = None \/ self.os = Get(other, "os"))
    /\ (Get(other, "architecture") = None
            \/ self.architecture = Get(other, "architecture"))
    /\ (Get(other, "variant") = None \/ self.variant = Get(other, "variant"))

\* A platform string is a sequence of characters.  Characters: two that are
\* not '/', and '/'.
Chars == {"l", "a", "/"}

\* The string of a sequence of characters.
RECURSIVE Str(_)
Str(cs) == IF cs = <<>> THEN "" ELSE cs[1] \o Str(Tail(cs))

\* The maximal runs of characters between the '/' of cs (str.split("/")).
RECURSIVE Segments(_)
Segments(cs) ==
    IF \A i \in 1..Len(cs) : cs[i] # "/" THEN <<cs>>
    ELSE LET k == CHOOSE i \in 1..Len(cs) :
                    cs[i] = "/" /\ \A j \in 1..(i - 1) : cs[j] # "/"
         IN <<SubSeq(cs, 1, k - 1)>> \o Segments(SubSeq(cs, k + 1, Len(cs)))

\* platform_regex.match(platform_str): the groups os, architecture and
\* variant (None for a group that did not take part), or no match.  The
\* pattern is one to three non-empty '/'-free runs separated by '/', up to
\* the end of the string.
platform_regex(platform_str) ==
    LET segs == Segments(platform_str)
    IN IF Len(segs) \in 1..3 /\ \A i \in 1..Len(segs) : segs[i] # <<>>
       THEN [matched |-> TRUE,
             os |-> Str(segs[1]),
             architecture |-> IF Len(segs) >= 2 THEN Str(segs[2]) ELSE None,
             variant |-> IF Len(segs) = 3 THEN Str(segs[3]) ELSE None]
       ELSE [matched |-> FALSE]

\* Platform(**data): os and architecture are required strings, variant is an
\* optional string defaulting to None.
PlatformModel(data) ==
    IF /\ {"os", "architecture"} \subseteq DOMAIN data
       /\ data.os # None
       /\ data.architecture # None
    THEN [error |-> None,
          value |-> [os |-> data.os, architecture |-> data.architecture,
                     variant |-> Get(data, "variant")]]
    ELSE [error |-> "ValidationError"]

\* from_str that returns the matched groups without constructing a Platform.
from_str_unvalidated(platform_str) ==
    LET match == platform_regex(platform_str)
    IN IF ~match.matched THEN [error |-> "ValueError"]
       ELSE [error |-> None,
             value |-> [os |-> match.os, architecture |-> match.architecture,
                        variant |-> match.variant]]

\* Platform.from_str: ValueError when the pattern does not match, else
\* Platform(os=..., architecture=..., variant=...) of the matched groups.
from_str(platform_str) ==
    LET match == platform_regex(platform_str)
    IN IF ~match.matched THEN [error |-> "ValueError"]
       ELSE PlatformModel([os |-> match.os, architecture |-> match.architecture,
                           variant |-> match.variant])

\* platform.system().lower() and platform.machine().lower() of the hosts modelled.
SystemNames == {"linux", "darwin", "windows", "freebsd"}
MachineNames == {"x86_64", "aarch64", "armv7l", "riscv64"}

\* os_map of detect_system; the names modelled are whole keys of the map.
os_map(os_name) ==
    CASE os_name = "linux" -> "linux"
      [] os_name = "darwin" -> "linux"
      [] os_name = "windows" -> "windows"
      [] OTHER -> None

\* arch_map.get(arch, "arm" if arch.startswith("arm") else None)
arch_map(arch) ==
    CASE arch \in {"x86_64", "amd64"} -> "amd64"
      [] arch \in {"aarch64", "arm64"} -> "arm64"
      [] arch \in {"armv7l"} -> "arm"
      [] OTHER -> None

\* Platform.detect_system: the Platform, or the RuntimeError it raises.
detect_system(os_name, arch) ==
    IF os_map(os_name) = None \/ arch_map(arch) = None
    THEN [error |-> "RuntimeError"]
    ELSE [error |-> None,
          value |-> [os |-> os_map(os_name),
                     architecture |-> arch_map(arch),
                     variant |-> None]]

(***************************************************************************)
(* provider/container.py                                                   *)
(***************************************************************************)

\* with_new_digest that leaves the tag in place.
with_new_digest_keeps_tag(original, digest) ==
    [original EXCEPT !.digest = digest]

\* Container.with_new_digest: a deep copy with the tag removed and the
\* digest replaced.
with_new_digest(original, digest) ==
    [original EXCEPT !.tag = None, !.digest = digest]

\* The attributes Container.parse sets on a Container.
ContainerFields == {"registry", "namespace", "repository", "tag", "digest"}

\* with_new_digest that works on `original` itself instead of a copy.
HeapWithNewDigest_in_place(heap, original, digest) ==
    [heap |-> [heap EXCEPT ![original] = with_new_digest(heap[original], digest)],
     result |-> original]

\* with_new_digest on objects: copy.deepcopy allocates a new object, the two
\* assignments are made to the copy, the copy is returned.
HeapWithNewDigest(heap, original, digest) ==
    LET new == Cardinality(DOMAIN heap) + 1
    IN [heap |-> [id \in DOMAIN heap \cup {new} |->
                    IF id = new THEN with_new_digest(heap[original], digest)
                    ELSE heap[id]],
        result |-> new]

\* str(container): the digest takes precedence over the tag.
ContainerStr(c) ==
    IF c.digest # None THEN <<c.name, "@", c.digest>>
    ELSE IF c.tag # None THEN <<c.name, ":", c.tag>>
    ELSE <<c.name>>

(***************************************************************************)
(* provider/schemas.py and the schema checks of provider/registry.py       *)
(***************************************************************************)

\* imageIndexManifestProperties.platform: an object with architecture and os,
\* whose architecture, os and variant are strings (not null).
ValidPlatformProperty(entry) ==
    "platform" \in DOMAIN entry =>
        /\ {"architecture", "os"} \subseteq DOMAIN entry.platform
        /\ \A f \in DOMAIN entry.platform \cap {"architecture", "os", "variant"} :
                entry.platform[f] # None

\* jsonschema.validate(doc, schema=image_index): schemaVersion and manifests
\* are required, and each element of manifests is checked.
ValidImageIndex(doc) ==
    /\ {"schemaVersion", "manifests"} \subseteq DOMAIN doc
    /\ \A i \in 1..Len(doc.manifests) : ValidPlatformProperty(doc.manifests[i])

\* _check_200_response: any other status raises ValueError.
Is200Response(response) == response.status_code \in {200, 201, 202}

\* jsonschema.validate(doc, schema=schema or oras.schemas.manifest): the
\* manifest schema requires schemaVersion, config and layers.
ValidManifest(doc) == {"schemaVersion", "config", "layers"} \subseteq DOMAIN doc

Validate(doc, schema) ==
    IF schema = "image_index" THEN ValidImageIndex(doc) ELSE ValidManifest(doc)

\* Registry.get_manifest on the registry's response: the manifest, or the
\* exception raised (ValueError by _check_200_response, ValidationError by
\* jsonschema.validate, which is not a ValueError).
get_manifest(response, schema) ==
    IF ~Is200Response(response) THEN [error |-> "ValueError"]
    ELSE IF ~Validate(response.json, schema) THEN [error |-> "ValidationError"]
    ELSE [error |-> None, value |-> response.json]

\* Registry.get_image_index: get_manifest with the image-index schema.
get_image_index(response) == get_manifest(response, "image_index")

(***************************************************************************)
(* The documents a registry may answer with.                               *)
(***************************************************************************)
Digests == {"sha256:a", "sha256:b"}

EntryPlatforms ==
    { [os |-> "linux", architecture |-> "amd64"],
      [os |-> "linux", architecture |-> "arm64"],
      [os |-> "linux", architecture |-> "arm64", variant |-> "v8"],
      [os |-> "linux"] }

\* Descriptors of an index: with or without platform, with or without digest.
IndexEntries ==
    { [digest |-> d, platform |-> p] : d \in Digests, p \in EntryPlatforms }
    \cup { [digest |-> d] : d \in Digests }
    \cup { [platform |-> p] : p \in EntryPlatforms }

SeqsUpTo(S, n) == UNION { [1..k -> S] : k \in 0..n }

IndexDocs ==
    { [schemaVersion |-> 2, manifests |-> ms] :
        ms \in SeqsUpTo(IndexEntries, MaxManifests) }

\* A single-image manifest: no `manifests` field.
PlainManifests ==
    { [schemaVersion |-> 2,
       config |-> [digest |-> "sha256:c"],
       layers |-> <<[digest |-> "sha256:l"]>>] }

IndexResponses ==
    { [status_code |-> st, json |-> doc, headers |-> EmptyDict] :
        st \in {200, 404}, doc \in IndexDocs \cup PlainManifests }

Targets ==
    { [name |-> "registry/image", tag |-> "latest", digest |-> None],
      [name |-> "registry/image", tag |-> None, digest |-> "sha256:t"] }

(***************************************************************************)
(* Registry.pull, step by step.                                            *)
(***************************************************************************)

\* An exception raised inside the try block: `except ValueError` continues
\* with the generic pull, anything else leaves pull.
PullExcept(err) ==
    IF err = "ValueError"
    THEN /\ pullPc' = "generic"
         /\ pullError' = None
    ELSE /\ pullPc' = "raised"
         /\ pullError' = err

\* container = self.get_container(target)
PullCall ==
    /\ pullPc = "idle"
    /\ \E target \in Targets :
        /\ pullTarget' = target
        /\ container' = target
    /\ pullPc' = "get_index"
    /\ UNCHANGED <<indexResponse, index, platform, scanPos, examined, requested,
                   pullError>>

\* index = self.get_image_index(container)
PullGetImageIndex ==
    /\ pullPc = "get_index"
    /\ \E response \in IndexResponses :
        LET r == get_image_index(response) IN
        /\ indexResponse' = response
        /\ IF r.error # None
           THEN PullExcept(r.error) /\ UNCHANGED index
           ELSE /\ index' = r.value
                /\ pullPc' = "detect"
                /\ UNCHANGED pullError
    /\ UNCHANGED <<pullTarget, container, platform, scanPos, examined, requested>>

\* platform = Platform.detect_system()
PullDetectSystem ==
    /\ pullPc = "detect"
    /\ \E os_name \in SystemNames, arch \in MachineNames :
        LET r == detect_system(os_name, arch) IN
        IF r.error # None
        THEN PullExcept(r.error) /\ UNCHANGED <<platform, scanPos>>
        ELSE /\ platform' = r.value
             /\ scanPos' = 1
             /\ pullPc' = "scan"
             /\ UNCHANGED pullError
    /\ UNCHANGED <<pullTarget, container, indexResponse, index, examined,
                   requested>>

\* One iteration of `for manifest in index.get("manifests", [])`.
PullScan ==
    /\ pullPc = "scan"
    /\ IF scanPos > Len(index.manifests)
       THEN /\ pullPc' = "generic"
            /\ UNCHANGED <<container, scanPos, examined, pullError>>
       ELSE LET manifest == index.manifests[scanPos] IN
            /\ examined' = Append(examined, scanPos)
            /\ IF is_match(platform,
                           IF "platform" \in DOMAIN manifest
                           THEN manifest.platform ELSE EmptyDict)
               THEN IF "digest" \in DOMAIN manifest
                    THEN /\ container' = with_new_digest(container, manifest.digest)
                         /\ pullPc' = "generic"
                         /\ UNCHANGED <<scanPos, pullError>>
                    ELSE /\ PullExcept("KeyError")
                         /\ UNCHANGED <<container, scanPos>>
               ELSE /\ scanPos' = scanPos + 1
                    /\ UNCHANGED <<container, pullPc, pullError>>
    /\ UNCHANGED <<pullTarget, indexResponse, index, platform, requested>>

\* return super().pull(str(container), ...)
PullGeneric ==
    /\ pullPc = "generic"
    /\ requested' = ContainerStr(container)
    /\ \E ok \in BOOLEAN :
        /\ pullPc' = IF ok THEN "done" ELSE "raised"
        /\ pullError' = IF ok THEN None ELSE "GenericPullError"
    /\ UNCHANGED <<pullTarget, container, indexResponse, index, platform,
                   scanPos, examined>>

(***************************************************************************)
(* utils/archive.py: the layer files of the model and their digests.       *)
(***************************************************************************)
LayerPaths == {"l1.tar.gz", "l2.tar.gz", "plain.txt"}

\* gzip.GzipFile(fileobj, mode="rb"): the tar stream inside the file, or None
\* when the file is not a gzip stream.
Gunzip(path) ==
    CASE path = "l1.tar.gz" -> "tar1"
      [] path = "l2.tar.gz" -> "tar2"
      [] OTHER -> None

\* hashlib sha256 hexdigest of the byte strings of the model.
Sha256Hex(data) ==
    CASE data = "tar1" -> "11aa"
      [] data = "tar2" -> "22bb"
      [] data = "l1.tar.gz" -> "33cc"
      [] data = "l2.tar.gz" -> "44dd"
      [] OTHER -> "55ee"

\* The digest taken over the compressed file instead.
diff_id_of_compressed_file(tar_gz_path) ==
    [error |-> None, value |-> Sha256Hex(tar_gz_path)]

\* diff_id_from_tar_gz: the hex digest of the decompressed tar stream.
diff_id_from_tar_gz(tar_gz_path) ==
    IF Gunzip(tar_gz_path) = None
    THEN [error |-> "BadGzipFile"]
    ELSE [error |-> None, value |-> Sha256Hex(Gunzip(tar_gz_path))]

(***************************************************************************)
(* provider/image.py                                                       *)
(***************************************************************************)
default_image_index_media_type == "application/vnd.oci.image.index.v1+json"

EmptyImageIndex ==
    [schemaVersion |-> 2,
     mediaType |-> default_image_index_media_type,
     manifests |-> <<>>,
     annotations |-> EmptyDict]

\* NewImageIndex: a deep copy of the template.
NewImageIndex == EmptyImageIndex

\* An entry that keeps the manifest's config.
IndexEntryOf_keeps_config(mfst) ==
    [key \in DOMAIN mfst \ {"schemaVersion", "layers"} |-> mfst[key]]

\* The entry made of one manifest: every key but schemaVersion, layers, config.
IndexEntryOf(mfst) ==
    [key \in DOMAIN mfst \ {"schemaVersion", "layers", "config"} |-> mfst[key]]

\* create_oci_image_index_manifest that puts each entry in front of the
\* entries made so far.
create_oci_image_index_manifest_prepending(mfsts) ==
    [NewImageIndex EXCEPT
        !.manifests = [i \in 1..Len(mfsts) |->
                            IndexEntryOf(mfsts[Len(mfsts) + 1 - i])]]

\* create_oci_image_index_manifest: one entry appended per manifest.
create_oci_image_index_manifest(mfsts) ==
    [NewImageIndex EXCEPT
        !.manifests = [i \in 1..Len(mfsts) |-> IndexEntryOf(mfsts[i])]]

(***************************************************************************)
(* provider/registry.py: uploads and the digest of an upload response.     *)
(***************************************************************************)

\* upload_manifest that sends the document without validating it.
upload_manifest_unvalidated(manifest, schema) == [error |-> None, put |-> TRUE]

\* Registry.upload_manifest: validation first; the PUT is issued only if it
\* passes.
upload_manifest(manifest, schema) ==
    IF ~Validate(manifest, schema)
    THEN [error |-> "ValidationError", put |-> FALSE]
    ELSE [error |-> None, put |-> TRUE]

\* Registry.upload_image_index: upload_manifest with the image-index schema.
upload_image_index(manifest) == upload_manifest(manifest, "image_index")

\* location.split("/")[-1]; a Location is modelled by its '/'-separated
\* segments.
LastSegment(location) == location[Len(location)]

\* Registry.extract_manifest_digest_from_upload_response: only the Location
\* header is read.
extract_manifest_digest_from_upload_response(response) ==
    IF ~Is200Response(response) THEN [error |-> "ValueError"]
    ELSE IF "Location" \in DOMAIN response.headers
    THEN [error |-> None, value |-> LastSegment(response.headers["Location"])]
    ELSE [error |-> "ValueError"]

(***************************************************************************)
(* The registry push_oci_image talks to, and client.push of the transport. *)
(***************************************************************************)

\* The headers a registry may put on the response of a manifest PUT.
RegistryStyles ==
    [location : BOOLEAN, content_digest : BOOLEAN, content_length : {None, "0", "512"}]

\* The registry is content addressed: a manifest's digest names its position
\* among the distinct manifests stored.
StorePosition(store, doc) ==
    IF \E i \in 1..Len(store) : store[i] = doc
    THEN CHOOSE i \in 1..Len(store) : store[i] = doc
    ELSE Len(store) + 1

StoreManifest(store, doc) ==
    IF \E i \in 1..Len(store) : store[i] = doc THEN store ELSE Append(store, doc)

ManifestDigest(store, doc) == "sha256:m" \o ToString(StorePosition(store, doc))

\* The response of a manifest PUT answered with `status`.
UploadResponse(style, name, digest, status) ==
    [status_code |-> status,
     json |-> EmptyDict,
     headers |->
        IF status \notin {200, 201, 202} THEN EmptyDict
        ELSE [h \in { x \in {"Location", "Docker-Content-Digest", "Content-Length"} :
                        \/ x = "Location" /\ style.location
                        \/ x = "Docker-Content-Digest" /\ style.content_digest
                        \/ x = "Content-Length" /\ style.content_length # None }
                |-> IF h = "Location" THEN <<"v2", name, "manifests", digest>>
                    ELSE IF h = "Docker-Content-Digest" THEN digest
                    ELSE style.content_length]]

\* The response of GET <name>@<digest>.
ReadBackResponse(store, digest, available) ==
    IF available /\ \E i \in 1..Len(store) : ManifestDigest(store, store[i]) = digest
    THEN [status_code |-> 200,
          json |-> store[CHOOSE i \in 1..Len(store) :
                            ManifestDigest(store, store[i]) = digest],
          headers |-> EmptyDict]
    ELSE [status_code |-> 404, json |-> EmptyDict, headers |-> EmptyDict]

\* int(s) for the Content-Length values of the model.
StrToInt(s) == IF s = "512" THEN 512 ELSE 0

\* The size taken from a response without a Content-Length header only.
ContentLength_ignores_header(response) == StrToInt("0")

\* int(response.headers.get('Content-Length', '0'))
ContentLength(response) ==
    IF "Content-Length" \in DOMAIN response.headers
    THEN StrToInt(response.headers["Content-Length"])
    ELSE StrToInt("0")

\* len(json.dumps(manifest)): grows with every layer descriptor.
JsonLen(manifest) == 200 + 150 * Len(manifest.layers)

layer_media_type == "application/vnd.oci.image.layer.v1.tar+gzip"
config_media_type == "application/vnd.oci.image.config.v1+json"

\* The config descriptor the transport uses when no manifest_config is given.
UnknownConfig == [mediaType |-> "application/vnd.unknown.config.v1+json", data |-> EmptyDict]

\* The manifest client.push builds from files and a config: one layer
\* descriptor per file, in the order given.
PushedManifest(files, config) ==
    [schemaVersion |-> 2,
     mediaType |-> "application/vnd.oci.image.manifest.v1+json",
     config |-> config,
     layers |-> [i \in 1..Len(files) |->
                    [mediaType |-> layer_media_type,
                     digest |-> "sha256:" \o Sha256Hex(files[i]),
                     title |-> files[i]]],
     annotations |-> EmptyDict]

\* The requests of one client.push: a blob per file in order, the config
\* blob, then the manifest PUT (through Registry.upload_manifest).
ClientPushRequests(files, config, status) ==
    [i \in 1..Len(files) |-> [op |-> "upload_blob", path |-> files[i]]]
    \o << [op |-> "upload_blob", config |-> config],
          [op |-> "upload_manifest", manifest |-> PushedManifest(files, config),
           status |-> status] >>

\* What name:tag resolves to after the requests made: client.push and
\* upload_image_index are given the container parsed from name:tag, and
\* upload_manifest PUTs to container.manifest_url(), the URL of the tag; each
\* accepted PUT moves the tag to the document sent.
PreviousImage == [schemaVersion |-> 2, mediaType |-> "previous"]

IsAcceptedTagPut(r) ==
    r.op \in {"upload_manifest", "upload_image_index"} /\ r.status = 201

TagResolvesTo(before, reqs) ==
    LET puts == SelectSeq(reqs, IsAcceptedTagPut)
    IN IF puts = <<>> THEN before ELSE puts[Len(puts)].manifest

(***************************************************************************)
(* deployments/steps/push.py                                               *)
(***************************************************************************)
PushName == "registry/image"
PushTag == "latest"

\* container = Container(f"{name}:{tag}")
PushContainer == [name |-> PushName, tag |-> PushTag, digest |-> None]

\* isinstance(layer, str) / isinstance(layer, dict): an element of `layers`
\* is [str |-> path] or [dict |-> record].
IsStr(layer) == "str" \in DOMAIN layer
IsDict(layer) == "dict" \in DOMAIN layer

\* PlatformManifest.model_validate: layers, and a platform whose os and
\* architecture are strings; variant is optional and may be None.
PlatformManifestValid(rec) ==
    /\ {"platform", "layers"} \subseteq DOMAIN rec
    /\ {"os", "architecture"} \subseteq DOMAIN rec.platform
    /\ rec.platform.os # None
    /\ rec.platform.architecture # None

\* PlatformManifest.model_validate(rec): the validated model, whose platform
\* is a Platform, or the ValidationError.
PlatformManifest(rec) ==
    IF PlatformManifestValid(rec)
    THEN [error |-> None,
          value |-> [platform |-> PlatformModel(rec.platform).value,
                     layers |-> rec.layers]]
    ELSE [error |-> "ValidationError"]

\* all(isinstance(layer, str) for layer in layers)
AllStr(ls) == \A i \in 1..Len(ls) : IsStr(ls[i])

\* The condition with only the first element validated.
AllPlatformManifests_first_only(ls) ==
    IF \E i \in 1..Len(ls) : ~IsDict(ls[i]) THEN "False"
    ELSE IF Len(ls) >= 1 /\ ~PlatformManifestValid(ls[1].dict) THEN "ValidationError"
    ELSE "True"

\* all(isinstance(layer, dict) and PlatformManifest.model_validate(layer) ...):
\* evaluated left to right; a layer that is no dict ends it with False, a
\* dict that fails validation raises.
AllPlatformManifests(ls) ==
    LET bad == { i \in 1..Len(ls) :
                    ~IsDict(ls[i]) \/ ~PlatformManifestValid(ls[i].dict) }
        first == CHOOSE i \in bad : \A j \in bad : i <= j
    IN IF bad = {} THEN "True"
       ELSE IF ~IsDict(ls[first]) THEN "False"
       ELSE "ValidationError"

\* d[k] = v
SetKey(d, k, v) == [x \in DOMAIN d \cup {k} |-> IF x = k THEN v ELSE d[x]]

\* The image config of one platform record: the platform's fields and rootfs.
ImageConfig(rec) ==
    SetKey(rec.platform, "rootfs",
           [type |-> "layers",
            diff_ids |-> [i \in 1..Len(rec.layers) |->
                            "sha256:" \o diff_id_from_tar_gz(rec.layers[i]).value]])

\* The arguments modelled.
LayerLists == { <<"l1.tar.gz">>, <<"l2.tar.gz", "l1.tar.gz">>, <<"plain.txt">> }

PushPlatforms ==
    { [os |-> "linux", architecture |-> "amd64"],
      [os |-> "linux", architecture |-> "arm64", variant |-> "v8"],
      [os |-> "linux", architecture |-> "arm64", variant |-> None] }

PlatformRecords ==
    { [platform |-> p, layers |-> ls] : p \in PushPlatforms, ls \in LayerLists }
    \cup { [platform |-> [os |-> "linux"], layers |-> <<"l1.tar.gz">>],
           [platform |-> [os |-> "linux", architecture |-> "amd64"]] }

LayersArguments ==
    { [i \in 1..Len(ls) |-> [str |-> ls[i]]] : ls \in LayerLists \cup {<<>>} }
    \cup { [i \in 1..Len(rs) |-> [dict |-> rs[i]]] :
            rs \in SeqsUpTo(PlatformRecords, MaxPlatforms) }
    \cup { << [str |-> "l1.tar.gz"],
              [dict |-> [platform |-> [os |-> "linux", architecture |-> "amd64"],
                         layers |-> <<"l1.tar.gz">>]] >> }

\* An exception that is logged and the push carried on with.
PushRaise_carries_on(err) ==
    /\ pushPc' = "assemble"
    /\ pushError' = err

\* An exception leaves push_oci_image: nothing catches it.
PushRaise(err) ==
    /\ pushPc' = "raised"
    /\ pushError' = err

\* The `credentials` keyword of a call: not passed, or passed with a value.
PushCredentialArguments ==
    { [passed |-> FALSE] }
    \cup { [passed |-> TRUE, value |-> c] :
            c \in { [is_none |-> TRUE],
                    [is_none |-> FALSE,
                     map |-> [username |-> "u",
                              password |-> [type |-> "str", value |-> "p"]]],
                    [is_none |-> FALSE, map |-> [region_name |-> "x"]] } }

\* The `client_kwargs` arguments of a call.
PushClientKwargs ==
    { [is_none |-> TRUE], [is_none |-> FALSE, map |-> [insecure |-> "True"]] }

\* The call push_oci_image(name, tag, layers, client_kwargs[, credentials]).
\* The signature has no `credentials` parameter: binding that keyword raises
\* TypeError before the body runs.  Otherwise
\* client = Registry(**client_kwargs or {}); container = Container(...);
\* manifests = []
PushCall ==
    /\ pushPc = "idle"
    /\ \E credentials \in PushCredentialArguments, client_kwargs \in PushClientKwargs :
        /\ pushArgs' = [credentials |-> credentials, client_kwargs |-> client_kwargs]
        /\ IF credentials.passed
           THEN /\ pushPc' = "raised"
                /\ pushError' = "TypeError"
                /\ UNCHANGED <<layers, registryStyle, manifests, pushClientCalls>>
           ELSE /\ \E arg \in LayersArguments : layers' = arg
                /\ \E style \in RegistryStyles : registryStyle' = style
                /\ manifests' = <<>>
                /\ pushClientCalls' =
                        << [op |-> "Registry",
                            kwargs |-> IF client_kwargs.is_none THEN EmptyDict
                                       ELSE client_kwargs.map] >>
                /\ pushPc' = "single"
                /\ UNCHANGED pushError
    /\ UNCHANGED <<platformPos, pushResponses, indexUpload, pushResult,
                   stored, requests>>

\* The single-manifest branch (push.py lines 48-64).
PushSingle ==
    /\ pushPc = "single"
    /\ IF ~AllStr(layers)
       THEN /\ pushPc' = "multi_check"
            /\ UNCHANGED <<manifests, pushResponses, pushError, stored, requests>>
       ELSE \E status \in {201, 500}, available \in BOOLEAN :
            LET files == [i \in 1..Len(layers) |-> layers[i].str]
                doc == PushedManifest(files, UnknownConfig)
                store1 == StoreManifest(stored, doc)
                response == UploadResponse(registryStyle, PushName,
                                           ManifestDigest(store1, doc), status)
                digest == extract_manifest_digest_from_upload_response(response)
                readback == get_manifest(
                                ReadBackResponse(store1, digest.value, available),
                                "manifest")
            IN IF status # 201
               THEN /\ requests' = requests \o ClientPushRequests(files, UnknownConfig, status)
                    /\ PushRaise("ValueError")
                    /\ UNCHANGED <<manifests, pushResponses, stored>>
               ELSE /\ stored' = store1
                    /\ pushResponses' = Append(pushResponses, response)
                    /\ IF digest.error # None
                       THEN /\ requests' = requests
                                    \o ClientPushRequests(files, UnknownConfig, status)
                            /\ PushRaise(digest.error)
                            /\ UNCHANGED manifests
                       ELSE /\ requests' = requests
                                    \o ClientPushRequests(files, UnknownConfig, status)
                                    \o <<[op |-> "get_manifest", digest |-> digest.value]>>
                            /\ IF readback.error # None
                               THEN PushRaise(readback.error) /\ UNCHANGED manifests
                               ELSE /\ manifests' = Append(manifests,
                                        SetKey(SetKey(readback.value, "digest", digest.value),
                                               "size", ContentLength(response)))
                                    /\ pushPc' = "multi_check"
                                    /\ UNCHANGED pushError
    /\ UNCHANGED <<layers, platformPos, indexUpload, pushResult, registryStyle>>

\* The condition of the multi-platform branch (push.py line 67).
PushMultiCheck ==
    /\ pushPc = "multi_check"
    /\ LET all == AllPlatformManifests(layers) IN
       IF all = "True"
       THEN pushPc' = "platform" /\ platformPos' = 1 /\ UNCHANGED pushError
       ELSE IF all = "False"
       THEN pushPc' = "assemble" /\ UNCHANGED <<platformPos, pushError>>
       ELSE PushRaise(all) /\ UNCHANGED platformPos
    /\ UNCHANGED <<layers, manifests, pushResponses, indexUpload, pushResult,
                   registryStyle, stored, requests>>

\* One iteration of `for platform in layers` (push.py lines 68-103).
PushPlatform ==
    /\ pushPc = "platform"
    /\ IF platformPos > Len(layers)
       THEN /\ pushPc' = "assemble"
            /\ UNCHANGED <<manifests, platformPos, pushResponses, pushError,
                           stored, requests>>
       ELSE \E status \in {201, 500}, available \in BOOLEAN :
            LET rec == layers[platformPos].dict
                unreadable == \E i \in 1..Len(rec.layers) :
                                diff_id_from_tar_gz(rec.layers[i]).error # None
                config == [mediaType |-> config_media_type, data |-> ImageConfig(rec)]
                doc == PushedManifest(rec.layers, config)
                store1 == StoreManifest(stored, doc)
                response == UploadResponse(registryStyle, PushName,
                                           ManifestDigest(store1, doc), status)
                digest == extract_manifest_digest_from_upload_response(response)
                readback == get_manifest(
                                ReadBackResponse(store1, digest.value, available),
                                "manifest")
            IN IF unreadable
               THEN /\ PushRaise("BadGzipFile")
                    /\ UNCHANGED <<manifests, platformPos, pushResponses, stored,
                                   requests>>
               ELSE IF status # 201
               THEN /\ requests' = requests \o ClientPushRequests(rec.layers, config, status)
                    /\ PushRaise("ValueError")
                    /\ UNCHANGED <<manifests, platformPos, pushResponses, stored>>
               ELSE /\ stored' = store1
                    /\ pushResponses' = Append(pushResponses, response)
                    /\ IF digest.error # None
                       THEN /\ requests' = requests
                                    \o ClientPushRequests(rec.layers, config, status)
                            /\ PushRaise(digest.error)
                            /\ UNCHANGED <<manifests, platformPos>>
                       ELSE /\ requests' = requests
                                    \o ClientPushRequests(rec.layers, config, status)
                                    \o <<[op |-> "get_manifest", digest |-> digest.value]>>
                            /\ IF readback.error # None
                               THEN /\ PushRaise(readback.error)
                                    /\ UNCHANGED <<manifests, platformPos>>
                               ELSE /\ manifests' = Append(manifests,
                                        SetKey(SetKey(SetKey(readback.value,
                                                "size", JsonLen(readback.value)),
                                                "digest", digest.value),
                                                "platform", rec.platform))
                                    /\ platformPos' = platformPos + 1
                                    /\ UNCHANGED <<pushPc, pushError>>
    /\ UNCHANGED <<layers, indexUpload, pushResult, registryStyle>>

\* The tail of the push without the upload of the empty-config blob.
PushAssemble_without_blob ==
    /\ pushPc = "assemble"
    /\ pushPc' = "upload_index"
    /\ UNCHANGED <<layers, manifests, platformPos, pushResponses, indexUpload,
                   pushResult, pushError, registryStyle, stored, requests>>

\* manifest = create_oci_image_index_manifest(manifests), then the upload of
\* the empty-config blob (push.py lines 105-111).
PushAssemble ==
    /\ pushPc = "assemble"
    /\ \E status \in {201, 500} :
        /\ requests' = Append(requests,
                [op |-> "upload_blob", config |-> "EmptyManifestConfig",
                 status |-> status])
        /\ IF status = 201
           THEN pushPc' = "upload_index" /\ UNCHANGED pushError
           ELSE PushRaise("ValueError")
    /\ UNCHANGED <<layers, manifests, platformPos, pushResponses, indexUpload,
                   pushResult, registryStyle, stored>>

\* client.upload_image_index, the extraction of its digest and the return
\* (push.py lines 113-126).
PushUploadIndex ==
    /\ pushPc = "upload_index"
    /\ LET manifest == create_oci_image_index_manifest(manifests)
           upload == upload_image_index(manifest)
       IN IF upload.error # None
          THEN /\ PushRaise(upload.error)
               /\ UNCHANGED <<indexUpload, pushResult, stored, requests>>
          ELSE \E status \in {201, 500} :
               LET store1 == IF status = 201 THEN StoreManifest(stored, manifest)
                             ELSE stored
                   response == UploadResponse(registryStyle, PushName,
                                              ManifestDigest(store1, manifest), status)
                   digest == extract_manifest_digest_from_upload_response(response)
               IN /\ requests' = Append(requests,
                        [op |-> "upload_image_index", manifest |-> manifest,
                         status |-> status])
                  /\ stored' = store1
                  /\ indexUpload' = response
                  /\ IF digest.error # None
                     THEN PushRaise(digest.error) /\ UNCHANGED pushResult
                     ELSE /\ pushResult' = [name |-> PushName,
                                            tag |-> PushTag,
                                            image |-> ContainerStr(PushContainer),
                                            digest |-> digest.value]
                          /\ pushPc' = "done"
                          /\ UNCHANGED pushError
    /\ UNCHANGED <<layers, manifests, platformPos, pushResponses, registryStyle>>

(***************************************************************************)
(* Direct calls of upload_manifest, upload_image_index, get_manifest,      *)
(* get_image_index and extract_manifest_digest_from_upload_response.       *)
(***************************************************************************)

\* The documents handed to the uploads and answered to the GETs: indexes of
\* at most one entry (valid or with a platform lacking architecture), a
\* single-image manifest, and a document with no schemaVersion.
RegistryDocs ==
    { [schemaVersion |-> 2, manifests |-> ms] : ms \in SeqsUpTo(IndexEntries, 1) }
    \cup PlainManifests
    \cup { [manifests |-> <<>>] }

RegistryResponses ==
    { [status_code |-> st, json |-> doc, headers |-> EmptyDict] :
        st \in {200, 404}, doc \in RegistryDocs }

\* The headers of an upload response: Location (<<>>: absent) and
\* Docker-Content-Digest (None: absent).
DigestHeaders(location, content_digest) ==
    [h \in { x \in {"Location", "Docker-Content-Digest"} :
                \/ x = "Location" /\ location # <<>>
                \/ x = "Docker-Content-Digest" /\ content_digest # None }
        |-> IF h = "Location" THEN location ELSE content_digest]

\* Upload responses with every combination of the two digest-bearing headers;
\* a Location may end with '/'.
DigestResponses ==
    { [status_code |-> st, json |-> EmptyDict, headers |-> DigestHeaders(loc, cd)] :
        st \in {201, 404},
        loc \in { <<>>,
                  <<"v2", "img", "manifests", "sha256:x">>,
                  <<"v2", "img", "manifests", "sha256:x", "">> },
        cd \in {None, "sha256:x", "sha256:y"} }

\* upload_manifest(manifest, container) / upload_image_index(manifest, container)
RegUpload(op, schema) ==
    /\ regCalls < MaxCalls
    /\ \E manifest \in RegistryDocs :
        LET r == IF op = "upload_image_index" THEN upload_image_index(manifest)
                 ELSE upload_manifest(manifest, schema)
        IN /\ lastCall' = [op |-> op, schema |-> schema, doc |-> manifest,
                           error |-> r.error]
           /\ wire' = IF r.put
                      THEN Append(wire, [schema |-> schema, doc |-> manifest])
                      ELSE wire
    /\ regCalls' = regCalls + 1
    /\ UNCHANGED returned

RegUploadManifest == RegUpload("upload_manifest", "manifest")

RegUploadImageIndex == RegUpload("upload_image_index", "image_index")

\* get_manifest(container) / get_image_index(container)
RegGet(op, schema) ==
    /\ regCalls < MaxCalls
    /\ \E response \in RegistryResponses :
        LET r == IF op = "get_image_index" THEN get_image_index(response)
                 ELSE get_manifest(response, schema)
        IN /\ lastCall' = [op |-> op, schema |-> schema, doc |-> response.json,
                           status_code |-> response.status_code, error |-> r.error]
           /\ returned' = IF r.error = None
                          THEN Append(returned, [schema |-> schema, doc |-> r.value])
                          ELSE returned
    /\ regCalls' = regCalls + 1
    /\ UNCHANGED wire

RegGetManifest == RegGet("get_manifest", "manifest")

RegGetImageIndex == RegGet("get_image_index", "image_index")

\* extract_manifest_digest_from_upload_response(response)
RegExtractDigest ==
    /\ regCalls < MaxCalls
    /\ \E response \in DigestResponses :
        lastCall' = [op |-> "extract_manifest_digest", response |-> response,
                     result |-> extract_manifest_digest_from_upload_response(response)]
    /\ regCalls' = regCalls + 1
    /\ UNCHANGED <<wire, returned>>

(***************************************************************************)
(* Direct calls of Platform.is_match, Platform.from_str,                   *)
(* Platform.detect_system and PlatformManifest.model_validate.             *)
(***************************************************************************)

\* The platforms is_match is called on.
MatchPlatforms ==
    [os : {"linux", "windows"}, architecture : {"amd64", "arm64"},
     variant : {None, "v8"}]

\* The dicts is_match is called with: every subset of the three keys, a key
\* holding None, a value of the platforms above, or a value that differs
\* from one of them by case only.
MatchFilters ==
    { [k \in K |-> f[k]] :
        f \in [os : {None, "linux", "Linux", "windows"},
               architecture : {None, "amd64", "arm64"},
               variant : {None, "v8", "v7"}],
        K \in SUBSET {"os", "architecture", "variant"} }

\* The strings from_str is called with.
PlatformStrings == SeqsUpTo(Chars, MaxStrLen)

\* The records PlatformManifest.model_validate is called with.
PlatformManifestInputs ==
    PlatformRecords
    \cup { [platform |-> [os |-> "linux", architecture |-> None],
            layers |-> <<"l1.tar.gz">>],
           [platform |-> [architecture |-> "amd64"], layers |-> <<"l1.tar.gz">>],
           [layers |-> <<"l1.tar.gz">>] }

\* self.is_match(other)
PlatIsMatch ==
    /\ platCalls < MaxCalls
    /\ \E self \in MatchPlatforms, other \in MatchFilters :
        platCall' = [op |-> "is_match", self |-> self, other |-> other,
                     result |-> is_match(self, other)]
    /\ platCalls' = platCalls + 1

\* Platform.from_str(platform_str)
PlatFromStr ==
    /\ platCalls < MaxCalls
    /\ \E platform_str \in PlatformStrings :
        platCall' = [op |-> "from_str", platform_str |-> platform_str,
                     result |-> from_str(platform_str)]
    /\ platCalls' = platCalls + 1

\* Platform.detect_system() on a host
PlatDetectSystem ==
    /\ platCalls < MaxCalls
    /\ \E os_name \in SystemNames, arch \in MachineNames :
        platCall' = [op |-> "detect_system", os_name |-> os_name, arch |-> arch,
                     result |-> detect_system(os_name, arch)]
    /\ platCalls' = platCalls + 1

\* PlatformManifest.model_validate(rec)
PlatValidateManifest ==
    /\ platCalls < MaxCalls
    /\ \E rec \in PlatformManifestInputs :
        LET r == PlatformManifest(rec)
        IN platCall' = [op |-> "model_validate", rec |-> rec,
                        result |-> IF r.error # None THEN r
                                   ELSE [error |-> None, value |-> r.value.platform]]
    /\ platCalls' = platCalls + 1

(***************************************************************************)
(* provider/auth.py                                                        *)
(*                                                                         *)
(* The argument `credentials` is [is_none |-> TRUE] for None, else         *)
(* [is_none |-> FALSE, map |-> the dict].  A password is a value with its  *)
(* Python type: [type |-> "str" | "SecretStr" | "NoneType", value |-> v].  *)
(* The cloud provider's behaviour during one call is a record `env`.       *)
(***************************************************************************)

\* token_decoded.split(':', 1): the pieces around the first ':' (one piece
\* when there is none).
SplitOnce(cs) ==
    IF \A i \in 1..Len(cs) : cs[i] # ":" THEN <<cs>>
    ELSE LET k == CHOOSE i \in 1..Len(cs) :
                    cs[i] = ":" /\ \A j \in 1..(i - 1) : cs[j] # ":"
         IN <<SubSeq(cs, 1, k - 1), SubSeq(cs, k + 1, Len(cs))>>

\* The authorization data of a provider response is usable when the list
\* is there and not empty.
HasAuthData(response) ==
    /\ "authorizationData" \in DOMAIN response
    /\ response["authorizationData"] # <<>>

\* The outcome of decoding the first entry of the authorization data:
\* auth_data[0]['authorizationToken'], base64.b64decode(...).decode('utf-8'),
\* and the unpacking of split(':', 1) into username and password.
DecodeToken(entry) ==
    IF "authorizationToken" \notin DOMAIN entry
    THEN [error |-> "ValueError", cause |-> "KeyError"]
    ELSE IF ~entry["authorizationToken"].base64
    THEN [error |-> "ValueError", cause |-> "binascii.Error"]
    ELSE LET pieces == SplitOnce(entry["authorizationToken"].text)
         IN IF Len(pieces) # 2
            THEN [error |-> "ValueError", cause |-> "ValueError"]
            ELSE [error |-> None,
                  value |-> [username |-> Str(pieces[1]),
                             password |-> Str(pieces[2])]]

\* _get_ecr_token that answers the pair ("AWS", None) when the provider
\* returned no authorization data.
get_ecr_token_lenient(credentials, env) ==
    IF ~env.sdk_installed THEN [error |-> "ImportError", cause |-> "ImportError"]
    ELSE IF env.failure # None THEN [error |-> "ValueError", cause |-> env.failure]
    ELSE IF ~HasAuthData(env.response)
    THEN [error |-> None, value |-> [username |-> "AWS", password |-> None]]
    ELSE DecodeToken(env.response["authorizationData"][1])

\* _get_ecr_token(credentials): the pair decoded from the provider's token,
\* or the exception raised and its __cause__.  ImportError when prefect_aws
\* cannot be imported; everything raised inside the try block (hydration,
\* the provider call, no authorization data, decoding) is re-raised as
\* ValueError from the original exception.
get_ecr_token(credentials, env) ==
    IF ~env.sdk_installed THEN [error |-> "ImportError", cause |-> "ImportError"]
    ELSE IF env.failure # None THEN [error |-> "ValueError", cause |-> env.failure]
    ELSE IF ~HasAuthData(env.response)
    THEN [error |-> "ValueError", cause |-> "ValueError"]
    ELSE DecodeToken(env.response["authorizationData"][1])

aws_keys == {"aws_access_key_id", "profile_name", "region_name", "assume_role_arn"}

\* password.get_secret_value() if hasattr(password, 'get_secret_value')
Unwrap(password) == password.value

\* resolve_credentials that tests for username and password first.
resolve_credentials_static_first(credentials, registry_url, env) ==
    IF credentials.is_none
    THEN [error |-> None, exchanges |-> 0,
          value |-> [username |-> None, password |-> None,
                     registry_url |-> None, auth_backend |-> "token"]]
    ELSE IF {"username", "password"} \subseteq DOMAIN credentials.map
    THEN [error |-> None, exchanges |-> 0,
          value |-> [username |-> credentials.map["username"],
                     password |-> Unwrap(credentials.map["password"]),
                     registry_url |-> IF "registry_url" \in DOMAIN credentials.map
                                      THEN credentials.map["registry_url"]
                                      ELSE registry_url,
                     auth_backend |-> "token"]]
    ELSE [error |-> "ValueError", cause |-> None, exchanges |-> 0]

\* resolve_credentials(credentials, registry_url): the 4-tuple returned or
\* the exception raised, and the number of calls of _get_ecr_token made.
resolve_credentials(credentials, registry_url, env) ==
    IF credentials.is_none
    THEN [error |-> None, exchanges |-> 0,
          value |-> [username |-> None, password |-> None,
                     registry_url |-> None, auth_backend |-> "token"]]
    ELSE IF DOMAIN credentials.map \cap aws_keys # {}
    THEN LET r == get_ecr_token(credentials.map, env)
         IN IF r.error # None
            THEN [error |-> r.error, cause |-> r.cause, exchanges |-> 1]
            ELSE [error |-> None, exchanges |-> 1,
                  value |-> [username |-> r.value.username,
                             password |-> r.value.password,
                             registry_url |-> registry_url,
                             auth_backend |-> "basic"]]
    ELSE IF {"username", "password"} \subseteq DOMAIN credentials.map
    THEN [error |-> None, exchanges |-> 0,
          value |-> [username |-> credentials.map["username"],
                     password |-> Unwrap(credentials.map["password"]),
                     registry_url |-> IF "registry_url" \in DOMAIN credentials.map
                                      THEN credentials.map["registry_url"]
                                      ELSE registry_url,
                     auth_backend |-> "token"]]
    ELSE [error |-> "ValueError", cause |-> None, exchanges |-> 0]

(***************************************************************************)
(* Direct calls of create_oci_image_index_manifest.                        *)
(***************************************************************************)

\* A manifest as push_oci_image hands it over: the manifest read back from
\* the registry with size, digest and platform added.
FullManifest(digest) ==
    [schemaVersion |-> 2,
     mediaType |-> "application/vnd.oci.image.manifest.v1+json",
     config |-> [mediaType |-> config_media_type, digest |-> "sha256:c"],
     layers |-> <<[mediaType |-> layer_media_type, digest |-> "sha256:l"]>>,
     digest |-> digest,
     size |-> 2,
     platform |-> [os |-> "linux", architecture |-> "amd64"]]

\* The manifests create_oci_image_index_manifest is called with: the full
\* manifest and the manifests that lack some of schemaVersion, layers,
\* config and platform.
ImageManifests ==
    { [key \in DOMAIN FullManifest(d) \ K |-> FullManifest(d)[key]] :
        d \in Digests,
        K \in SUBSET {"schemaVersion", "layers", "config", "platform"} }

\* create_oci_image_index_manifest(manifests)
ImgCreate ==
    /\ imgCalls < MaxCalls
    /\ \E mfsts \in SeqsUpTo(ImageManifests, MaxManifests) :
        imgCall' = [op |-> "create_oci_image_index_manifest",
                    manifests |-> mfsts,
                    result |-> create_oci_image_index_manifest(mfsts)]
    /\ imgCalls' = imgCalls + 1

(***************************************************************************)
(* Direct calls of resolve_credentials and _get_ecr_token.                 *)
(***************************************************************************)

CredentialKeys == aws_keys \cup {"username", "password", "registry_url", "unknown"}

Passwords ==
    { [type |-> "str", value |-> "p"],
      [type |-> "SecretStr", value |-> "p"],
      [type |-> "NoneType", value |-> None] }

\* The value a credentials dict holds under a key.
CredentialValue(key, password, registry) ==
    CASE key = "password" -> password
      [] key = "registry_url" -> registry
      [] key = "username" -> "u"
      [] OTHER -> "x"

\* The `credentials` arguments: None, and the dicts over every subset of the
\* keys (the empty dict included).
CredentialInputs ==
    { [is_none |-> TRUE] }
    \cup { [is_none |-> FALSE,
            map |-> [key \in K |-> CredentialValue(key, password, registry)]] :
            K \in SUBSET CredentialKeys,
            password \in Passwords,
            registry \in {"custom-registry.com", None} }

\* The decoded text of a provider token, as characters.
TokenTexts ==
    { <<"A", ":", "p">>, <<"A", ":", "p", ":", "q">>, <<"A", ":">>,
      <<"A", "p">>, <<>> }

\* The entries of authorizationData.
AuthorizationEntries ==
    { [authorizationToken |-> [base64 |-> b, text |-> t]] :
        b \in BOOLEAN, t \in TokenTexts }
    \cup { [proxyEndpoint |-> "https://ecr"] }

\* What the cloud side does during a call: whether prefect_aws can be
\* imported, the exception hydration or the provider call raises (None:
\* neither raises), and the provider's response.
Environments ==
    { [sdk_installed |-> sdk, failure |-> f, response |-> r] :
        sdk \in BOOLEAN,
        f \in {None, "ValidationError", "ClientError"},
        r \in { [authorizationData |-> ad] : ad \in SeqsUpTo(AuthorizationEntries, 1) }
              \cup { EmptyDict } }

RegistryHosts == {"registry-1.docker.io"}

\* resolve_credentials(credentials, registry_url); one call per behaviour,
\* the function keeps nothing between calls.
AuthResolve ==
    /\ authCalls = 0
    /\ \E credentials \in CredentialInputs, registry_url \in RegistryHosts,
          env \in Environments :
        authCall' = [op |-> "resolve_credentials", credentials |-> credentials,
                     registry_url |-> registry_url, env |-> env,
                     result |-> resolve_credentials(credentials, registry_url, env)]
    /\ authCalls' = authCalls + 1

\* _get_ecr_token(credentials)
AuthGetEcrToken ==
    /\ authCalls = 0
    /\ \E credentials \in CredentialInputs, env \in Environments :
        /\ ~credentials.is_none
        /\ authCall' = [op |-> "_get_ecr_token", credentials |-> credentials,
                        env |-> env,
                        result |-> get_ecr_token(credentials.map, env)]
    /\ authCalls' = authCalls + 1

(***************************************************************************)
(* deployments/steps/pull.py: pull_oci_image.                              *)
(***************************************************************************)

\* The image names of the model and the registry Container(f"{name}:{tag}")
\* parses from each: the leading host when the name has one, else the
\* default registry.
StepNames == {"my-registry.com/test-image", "test-image"}

ContainerRegistry(name) ==
    IF name = "my-registry.com/test-image" THEN "my-registry.com"
    ELSE "registry-1.docker.io"

\* os.getcwd()
Cwd == "/cwd"

\* The `path` arguments: None, the empty string, a directory.
StepPaths == {None, "", "/tmp/out"}

\* The `credentials` arguments: None, the empty dict, static credentials
\* (complete, with their own registry_url, with an empty or None password,
\* without password), cloud credentials and an unknown dict.
StepCredentials ==
    { c \in CredentialInputs :
        \/ c.is_none
        \/ /\ ~c.is_none
           /\ DOMAIN c.map \in { {}, {"username", "password"}, {"username"},
                                 {"username", "password", "registry_url"},
                                 {"region_name"}, {"unknown"} }
           /\ "registry_url" \in DOMAIN c.map => c.map["registry_url"] # None }
    \cup { [is_none |-> FALSE,
            map |-> [username |-> "u", password |-> [type |-> "str", value |-> ""]]] }

\* The `client_kwargs` arguments: None and dicts, one of which sets
\* auth_backend itself.
StepClientKwargs ==
    { [is_none |-> TRUE],
      [is_none |-> FALSE, map |-> EmptyDict],
      [is_none |-> FALSE, map |-> [insecure |-> "True"]],
      [is_none |-> FALSE, map |-> [auth_backend |-> "basic"]] }

\* The cloud provider during the step: a usable token, no authorization
\* data, a failing provider call, no SDK.
StepEnvironments ==
    { e \in Environments :
        \/ /\ e.sdk_installed /\ e.failure = None
           /\ e.response \in
                { [authorizationData |->
                    <<[authorizationToken |-> [base64 |-> TRUE,
                                               text |-> <<"A", ":", "p">>]]>>],
                  [authorizationData |-> <<>>] }
        \/ /\ e.sdk_installed /\ e.failure = "ClientError" /\ e.response = EmptyDict
        \/ /\ ~e.sdk_installed /\ e.failure = None /\ e.response = EmptyDict }

\* bool(x) of a str or None.
Truthy(x) == x \notin {None, ""}

\* An exception leaves pull_oci_image: nothing catches it.
StepRaise(err) ==
    /\ stepPc' = "raised"
    /\ stepError' = err

\* path = path or os.getcwd(); container = Container(f"{name}:{tag}");
\* username, password, registry_url, auth_backend =
\*     resolve_credentials(credentials, container.registry)
StepCall ==
    /\ stepPc = "idle"
    /\ \E name \in StepNames, path \in StepPaths, credentials \in StepCredentials,
          client_kwargs \in StepClientKwargs, env \in StepEnvironments :
        LET r == resolve_credentials(credentials, ContainerRegistry(name), env)
        IN /\ stepArgs' = [name |-> name, tag |-> "latest", path |-> path,
                           credentials |-> credentials,
                           client_kwargs |-> client_kwargs]
           /\ stepEvents' = << [op |-> "resolve_credentials",
                                credentials |-> credentials,
                                registry_url |-> ContainerRegistry(name)] >>
           /\ IF r.error # None
              THEN /\ StepRaise(r.error)
                   /\ stepLocals' = [path |-> IF Truthy(path) THEN path ELSE Cwd]
              ELSE /\ stepPc' = "resolved"
                   /\ stepLocals' = [path |-> IF Truthy(path) THEN path ELSE Cwd,
                                     username |-> r.value.username,
                                     password |-> r.value.password,
                                     registry_url |-> r.value.registry_url,
                                     auth_backend |-> r.value.auth_backend]
                   /\ UNCHANGED stepError
    /\ UNCHANGED stepResult

\* client_kwargs = (client_kwargs or {}).copy(), with auth_backend when
\* credentials is truthy
StepKwargs(args, locals) ==
    LET given == IF args.client_kwargs.is_none THEN EmptyDict
                 ELSE args.client_kwargs.map
        truthy == ~args.credentials.is_none /\ DOMAIN args.credentials.map # {}
    IN IF truthy
       THEN [k \in DOMAIN given \cup {"auth_backend"} |->
                IF k = "auth_backend" THEN locals.auth_backend ELSE given[k]]
       ELSE given

\* The client constructed and never logged in.
StepClient_without_login ==
    /\ stepPc = "resolved"
    /\ stepEvents' = stepEvents
            \o << [op |-> "Registry", kwargs |-> StepKwargs(stepArgs, stepLocals)] >>
    /\ stepPc' = "client"
    /\ UNCHANGED <<stepArgs, stepLocals, stepResult, stepError>>

\* client = Registry(**client_kwargs); client.login(...) if username and
\* password
StepClient ==
    /\ stepPc = "resolved"
    /\ stepEvents' = stepEvents
            \o << [op |-> "Registry", kwargs |-> StepKwargs(stepArgs, stepLocals)] >>
            \o IF Truthy(stepLocals.username) /\ Truthy(stepLocals.password)
               THEN << [op |-> "login", username |-> stepLocals.username,
                        password |-> stepLocals.password,
                        hostname |-> stepLocals.registry_url] >>
               ELSE <<>>
    /\ stepPc' = "client"
    /\ UNCHANGED <<stepArgs, stepLocals, stepResult, stepError>>

\* files = client.pull("{0}:{1}".format(name, tag), outdir=path);
\* return {"files": files, "path": path}
StepPull ==
    /\ stepPc = "client"
    /\ stepEvents' = Append(stepEvents,
            [op |-> "pull", target |-> stepArgs.name \o ":" \o stepArgs.tag,
             outdir |-> stepLocals.path])
    /\ \E outcome \in {"files", "raises"}, files \in SeqsUpTo(LayerPaths, 1) :
        IF outcome = "raises"
        THEN StepRaise("PullError") /\ UNCHANGED stepResult
        ELSE /\ stepResult' = [files |-> files, path |-> stepLocals.path]
             /\ stepPc' = "done"
             /\ UNCHANGED stepError
    /\ UNCHANGED <<stepArgs, stepLocals>>

(***************************************************************************)
(* deployments/steps/build.py: create_tar_archive, and make_targz of       *)
(* utils/archive.py.                                                       *)
(*                                                                         *)
(* A path is [abs |-> whether it starts with '/', parts |-> its segments]. *)
(***************************************************************************)

Rel(parts) == [abs |-> FALSE, parts |-> parts]
Abs(parts) == [abs |-> TRUE, parts |-> parts]

\* The directory the process runs in, and the regular files and the
\* directories of the file system, as absolute segment lists.
ProcessCwd == <<"w">>

Files == { <<"w", "test.txt">>, <<"w", "sub", "f.txt">>, <<"w", "d", "t.txt">> }

IsPrefix(a, b) == Len(a) <= Len(b) /\ SubSeq(b, 1, Len(a)) = a

Dirs == { d \in UNION { { SubSeq(f, 1, k) : k \in 0..(Len(f) - 1) } : f \in Files } : TRUE }

\* The file-system object a path names: a relative path is taken from the
\* process's current directory.
Resolve(path) == IF path.abs THEN path.parts ELSE ProcessCwd \o path.parts

\* a / b of pathlib and os.path.join(a, b): an absolute b replaces a.
PathJoin(a, b) == IF b.abs THEN b ELSE [abs |-> a.abs, parts |-> a.parts \o b.parts]

\* source_path.rglob("*") filtered by is_file(): the files below a
\* directory, each as the directory's path extended (no directory of the
\* model holds more than one file).
RglobFiles(path) ==
    LET below == { f \in Files : IsPrefix(Resolve(path), f) }
    IN IF below = {} THEN <<>>
       ELSE LET f == CHOOSE x \in below : TRUE
            IN << [abs |-> path.abs,
                   parts |-> path.parts
                        \o SubSeq(f, Len(Resolve(path)) + 1, Len(f))] >>

\* path.relative_to(cwd): lexical; ValueError when cwd is not a prefix of
\* path.
RelativeTo(path, cwd) ==
    IF path.abs = cwd.abs /\ IsPrefix(cwd.parts, path.parts)
    THEN [error |-> None,
          value |-> SubSeq(path.parts, Len(cwd.parts) + 1, Len(path.parts))]
    ELSE [error |-> "ValueError"]

\* The paths one source yields in item_generator: the source made absolute
\* with cwd unless it is absolute already; the files below it when it is a
\* directory, else itself when it is a file.
SourceCandidates(source, cwd) ==
    LET source_path == IF source.abs THEN source ELSE PathJoin(cwd, source)
    IN IF Resolve(source_path) \in Dirs /\ Resolve(source_path) \notin Files
       THEN RglobFiles(source_path)
       ELSE IF Resolve(source_path) \in Files THEN <<source_path>> ELSE <<>>

\* item_generator(): the paths yielded, in order.
RECURSIVE item_generator(_, _)
item_generator(sources, cwd) ==
    IF sources = <<>> THEN <<>>
    ELSE SourceCandidates(sources[1], cwd) \o item_generator(Tail(sources), cwd)

\* The name tarfile gives a member: arcname without its leading '/'.
TarName(arcname) == arcname.parts

\* make_targz(items, dest_name, working_directory, archive_root): the
\* members added, in order, up to the first item that stops the loop, and
\* the exception that stopped it (None: none).  An item outside
\* included_files is skipped by the generator; its relative_to raises
\* ValueError for a path that is not below cwd.
RECURSIVE make_targz(_, _, _, _)
make_targz(items, working_directory, archive_root, included_files) ==
    IF items = <<>> THEN [entries |-> <<>>, error |-> None]
    ELSE LET item == items[1]
             file == PathJoin(working_directory, item)
             arcname == PathJoin(archive_root, item)
             rest == make_targz(Tail(items), working_directory, archive_root,
                                included_files)
         IN IF included_files.filtering
                /\ RelativeTo(item, working_directory).error # None
            THEN [entries |-> <<>>, error |-> "ValueError"]
            ELSE IF included_files.filtering
                /\ RelativeTo(item, working_directory).value \notin included_files.names
            THEN rest
            ELSE IF Resolve(file) \notin Files
            THEN [entries |-> <<>>, error |-> "FileNotFoundError"]
            ELSE [entries |-> <<[name |-> TarName(arcname), file |-> Resolve(file)]>>
                                \o rest.entries,
                  error |-> rest.error]

\* The `sources` of the model: a file and a directory by relative path, a
\* file by absolute path, a file of the directory d by its name in d, and
\* a name that does not exist.
BuildSources ==
    { Rel(<<"test.txt">>), Rel(<<"sub">>), Abs(<<"w", "test.txt">>),
      Rel(<<"t.txt">>), Rel(<<"missing.txt">>) }

\* The `working_directory` arguments: the absolute current directory (the
\* default, os.getcwd()), ".", and the relative directory d.
BuildWorkingDirectories == { Abs(ProcessCwd), Rel(<<>>), Rel(<<"d">>) }

\* The `archive_root` arguments (None and "" are the empty relative path).
BuildArchiveRoots == { None, "", "custom/root" }

ArchiveRootPath(archive_root) ==
    IF archive_root = "custom/root" THEN Rel(<<"custom", "root">>) ELSE Rel(<<>>)

\* included_files: None when there is no ignore file, else the relative
\* names filter_files kept.
BuildIncluded ==
    { [filtering |-> FALSE, names |-> {}],
      [filtering |-> TRUE, names |-> {<<"test.txt">>, <<"t.txt">>}] }

\* create_tar_archive(sources, output_path, archive_root, working_directory,
\* ignore_file) up to the call of make_targz
BuildCall ==
    /\ buildPc = "idle"
    /\ \E sources \in SeqsUpTo(BuildSources, MaxSources) \ {<<>>},
          working_directory \in BuildWorkingDirectories,
          archive_root \in BuildArchiveRoots, included_files \in BuildIncluded :
        buildArgs' = [sources |-> sources, working_directory |-> working_directory,
                      archive_root |-> archive_root,
                      included_files |-> included_files]
    /\ buildPc' = "called"
    /\ UNCHANGED <<buildEntries, buildResult, buildError>>

\* make_targz(item_generator(), output_path, ...); return {"output_path": ...}
BuildMakeTargz ==
    /\ buildPc = "called"
    /\ LET r == make_targz(
                    item_generator(buildArgs.sources, buildArgs.working_directory),
                    buildArgs.working_directory,
                    ArchiveRootPath(buildArgs.archive_root),
                    buildArgs.included_files)
       IN /\ buildEntries' = r.entries
          /\ buildError' = r.error
          /\ IF r.error # None
             THEN buildPc' = "raised" /\ UNCHANGED buildResult
             ELSE /\ buildPc' = "done"
                  /\ buildResult' = [output_path |-> "archive.tar.gz"]
    /\ UNCHANGED buildArgs

(***************************************************************************)
(* utils/archive.py: the bytes make_targz writes.  A file is a sequence of *)
(* blocks: the gzip header, then one block per tar member (its header      *)
(* fields and its content).                                                *)
(***************************************************************************)

\* os.stat of the files on disk (every file of one build has the same
\* owner, times and mode): 420 is 0o644, 493 is 0o755.
FileStats ==
    { [uid |-> 0, gid |-> 0, uname |-> "root", gname |-> "root", mtime |-> 0,
       mode |-> 420],
      [uid |-> 1000, gid |-> 1000, uname |-> "dev", gname |-> "staff",
       mtime |-> 1700000000, mode |-> 420],
      [uid |-> 0, gid |-> 0, uname |-> "root", gname |-> "root", mtime |-> 0,
       mode |-> 493],
      [uid |-> 1000, gid |-> 1000, uname |-> "dev", gname |-> "staff",
       mtime |-> 1700000000, mode |-> 493] }

\* The wall-clock time of a build, and the content of the files.
Clocks == {1700000001, 1700000002}
Contents == {"Test content", "Other content"}

\* tar_file.gettarinfo(name, arcname): the member's header taken from
\* os.stat, and the file's content.
gettarinfo(entry, stat, content) ==
    [name |-> entry.name, content |-> content, mode |-> stat.mode,
     uid |-> stat.uid, gid |-> stat.gid, uname |-> stat.uname,
     gname |-> stat.gname, mtime |-> stat.mtime]

\* reset(tarinfo): owner ids and names and the modification time are
\* overwritten; the other fields are left as they are.
reset(tarinfo) ==
    [tarinfo EXCEPT !.uid = 0, !.gid = 0, !.uname = "root", !.gname = "root",
                    !.mtime = 0]

\* gzip.GzipFile(mode="wb", fileobj=out_file, mtime=0): the header carries
\* the mtime given, not the clock, and no file name (out_file.name is a
\* file descriptor number).
GzipHeader(clock) == [gzip_mtime |-> 0, gzip_filename |-> ""]

\* The bytes of the archive: the gzip header and the members added with
\* filter=reset, in order.
ArchiveBytes(entries, stat, content, clock) ==
    <<GzipHeader(clock)>>
        \o [i \in 1..Len(entries) |-> reset(gettarinfo(entries[i], stat, content))]

\* os.fdopen(os.open(dest_name, os.O_WRONLY | os.O_CREAT, 0o644), "wb") and
\* the writes through it: the file is created when missing and written from
\* offset 0; what an existing file holds beyond the bytes written stays.
WriteFromStart(old, new) ==
    [i \in 1..(IF Len(old) > Len(new) THEN Len(old) ELSE Len(new)) |->
        IF i <= Len(new) THEN new[i] ELSE old[i]]

\* The items of the builds: a file and a directory of the current directory.
ArchSources == { Rel(<<"test.txt">>), Rel(<<"sub">>) }

\* make_targz(items, dest_name, working_directory=".", archive_root=None)
ArchMakeTargz ==
    /\ archCalls < MaxCalls
    /\ \E sources \in SeqsUpTo(ArchSources, MaxSources) \ {<<>>},
          stat \in FileStats, content \in Contents, clock \in Clocks :
        LET r == make_targz(item_generator(sources, Rel(<<>>)), Rel(<<>>),
                            Rel(<<>>), [filtering |-> FALSE, names |-> {}])
            bytes == ArchiveBytes(r.entries, stat, content, clock)
        IN /\ r.error = None
           /\ archLast' = [op |-> "make_targz", sources |-> sources, stat |-> stat,
                           content |-> content, clock |-> clock, bytes |-> bytes,
                           dest_before |-> archDest,
                           dest_after |-> WriteFromStart(archDest, bytes)]
           /\ archDest' = WriteFromStart(archDest, bytes)
    /\ archPrev' = archLast
    /\ archCalls' = archCalls + 1

\* os.remove(dest_name) between two builds
ArchUnlink ==
    /\ archDest # <<>>
    /\ archDest' = <<>>
    /\ UNCHANGED <<archCalls, archPrev, archLast>>

(***************************************************************************)
(* deployments/steps/build.py: install_dependencies_for_archiving.         *)
(***************************************************************************)

sys_executable == "/usr/bin/python3"

\* The command handed to run_process.
InstallCommand(requirements_file, target_directory, target_platform, additional_pip_args, uv) ==
    LET base == <<"pip3", "install", "-r", requirements_file,
                  "--target", target_directory>>
        withPlatform == IF Truthy(target_platform)
                        THEN base \o <<"--python-platform", target_platform>>
                        ELSE base
        command == IF additional_pip_args.is_none
                   THEN withPlatform
                   ELSE withPlatform \o additional_pip_args.value
    IN IF Truthy(uv)
       THEN <<uv>> \o command
       ELSE <<sys_executable, "-m">> \o command

\* stream_output == True is replaced by a pair of LoggerWriter objects.
InstallStreamOutput(stream_output) ==
    IF stream_output = "True"
    THEN "(LoggerWriter(INFO), LoggerWriter(ERROR))"
    ELSE stream_output

InstallRequirements == {"requirements.txt", "reqs/dev.txt"}
InstallTargets == {"deps", "build/site"}
InstallPlatforms == {None, "", "x86_64-manylinux2014"}
InstallPipArgs ==
    { [is_none |-> TRUE, value |-> <<>>],
      [is_none |-> FALSE, value |-> <<>>],
      [is_none |-> FALSE, value |-> <<"--no-deps">>],
      [is_none |-> FALSE, value |-> <<"--upgrade", "--no-cache">>] }
InstallWhich == {None, "/usr/bin/uv"}
InstallStreams == {"True", "False"}

\* install_dependencies_for_archiving is called.
InstallCall ==
    /\ instPc = "idle"
    /\ \E rf \in InstallRequirements, td \in InstallTargets,
          pl \in InstallPlatforms, extra \in InstallPipArgs,
          uv \in InstallWhich, so \in InstallStreams :
        instArgs' = [requirements_file |-> rf, target_directory |-> td,
                     platform |-> pl, additional_pip_args |-> extra,
                     uv |-> uv, stream_output |-> so]
    /\ instPc' = "called"
    /\ UNCHANGED instProcesses

\* The body: the command is assembled and awaited through run_process.
InstallRunProcess ==
    /\ instPc = "called"
    /\ instProcesses' = Append(instProcesses,
            [command |-> InstallCommand(instArgs.requirements_file,
                                        instArgs.target_directory,
                                        instArgs.platform,
                                        instArgs.additional_pip_args,
                                        instArgs.uv),
             stream_output |-> InstallStreamOutput(instArgs.stream_output)])
    /\ instPc' = "done"
    /\ UNCHANGED instArgs

(***************************************************************************)
(* provider/image.py with its objects: create_oci_image_index_manifest     *)
(* called by several callers whose steps interleave.                       *)
(***************************************************************************)

\* The callers, and the reference of the module-level EmptyImageIndex.
Callers == {1, 2}
TemplateRef == 0

\* NewImageIndex that hands out the template itself.
NewImageIndexRef_shared(heap, new) == [heap |-> heap, ref |-> TemplateRef]

\* NewImageIndex(): copy.deepcopy(EmptyImageIndex), a new object holding
\* what the template holds now.
NewImageIndexRef(heap, new) ==
    [heap |-> [r \in DOMAIN heap \cup {new} |->
                    IF r = new THEN heap[TemplateRef] ELSE heap[r]],
     ref |-> new]

\* The manifests of caller c: no two callers pass the same manifest.
CallerDigests(c) == { "sha256:" \o ToString(c) \o x : x \in {"a", "b"} }
CallerManifests(c) == { FullManifest(d) : d \in CallerDigests(c) }

\* image_index = NewImageIndex(), in create_oci_image_index_manifest called
\* directly or at the end of push_oci_image with its local manifests list.
IdxCall(c) ==
    /\ idxCalls[c].pc = "idle"
    /\ \E mfsts \in SeqsUpTo(CallerManifests(c), MaxManifests),
          via \in {"create_oci_image_index_manifest", "push_oci_image"} :
        LET r == NewImageIndexRef(idxHeap, c)
        IN /\ idxHeap' = r.heap
           /\ idxCalls' = [idxCalls EXCEPT ![c] =
                    [pc |-> "loop", via |-> via, manifests |-> mfsts, pos |-> 0,
                     image_index |-> r.ref]]

\* One turn of the loop: image_index['manifests'].append(m)
IdxAppend(c) ==
    LET call == idxCalls[c]
    IN /\ call.pc = "loop"
       /\ call.pos < Len(call.manifests)
       /\ idxHeap' = [idxHeap EXCEPT ![call.image_index].manifests =
                Append(@, IndexEntryOf(call.manifests[call.pos + 1]))]
       /\ idxCalls' = [idxCalls EXCEPT ![c].pos = @ + 1]

\* return image_index
IdxReturn(c) ==
    LET call == idxCalls[c]
    IN /\ call.pc = "loop"
       /\ call.pos = Len(call.manifests)
       /\ idxCalls' = [idxCalls EXCEPT ![c].pc = "returned"]
       /\ UNCHANGED idxHeap

(***************************************************************************)
(* deployments/logging.py: LoggerWriter.  A str is a sequence of           *)
(* characters, a bytes object a sequence of bytes; "C3" "A9" is the UTF-8  *)
(* encoding of the character "E9", and "FFFD" is the replacement character.*)
(***************************************************************************)

\* The characters str.strip and str.rstrip remove.
Whitespace == {" ", "\n"}

RECURSIVE decode(_)
\* message.decode(errors="replace"): a complete sequence is its character,
\* a byte that starts or continues no complete sequence is replaced.
decode(bs) ==
    IF bs = <<>> THEN <<>>
    ELSE IF Len(bs) >= 2 /\ bs[1] = "C3" /\ bs[2] = "A9"
    THEN <<"E9">> \o decode(SubSeq(bs, 3, Len(bs)))
    ELSE IF bs[1] \in {"C3", "A9"}
    THEN <<"FFFD">> \o decode(Tail(bs))
    ELSE <<bs[1]>> \o decode(Tail(bs))

RECURSIVE split(_)
\* s.split("\n"): the pieces between the newlines, one more than there are
\* newlines.
split(s) ==
    IF \A i \in 1..Len(s) : s[i] # "\n" THEN <<s>>
    ELSE LET p == CHOOSE i \in 1..Len(s) :
                    s[i] = "\n" /\ \A j \in 1..(i - 1) : s[j] # "\n"
         IN <<SubSeq(s, 1, p - 1)>> \o split(SubSeq(s, p + 1, Len(s)))

RECURSIVE rstrip(_)
rstrip(s) ==
    IF s # <<>> /\ s[Len(s)] \in Whitespace
    THEN rstrip(SubSeq(s, 1, Len(s) - 1)) ELSE s

RECURSIVE lstrip(_)
lstrip(s) == IF s # <<>> /\ s[1] \in Whitespace THEN lstrip(Tail(s)) ELSE s

strip(s) == lstrip(rstrip(s))

\* LoggerWriter.write(message) on a writer whose buffer is buf: the new
\* buffer, the records logged and the value returned.
LoggerWrite(buf, level, message) ==
    LET text == IF message.kind = "bytes" THEN decode(message.data) ELSE message.data
        pieces == split(buf \o text)
        lines == SubSeq(pieces, 1, Len(pieces) - 1)
        kept == SelectSeq(lines, LAMBDA line : rstrip(line) # <<>>)
    IN IF message.data = <<>>
       THEN [buf |-> buf, logged |-> <<>>, return |-> 0]
       ELSE [buf |-> pieces[Len(pieces)],
             logged |-> [i \in 1..Len(kept) |-> [level |-> level, msg |-> rstrip(kept[i])]],
             return |-> Len(text)]

\* The messages written: str objects and bytes objects of up to MaxChunk
\* characters or bytes.
StrChars == {"a", " ", "\n"}
ByteValues == {"\n", "C3", "A9"}
Messages ==
    { [kind |-> "str", data |-> d] : d \in SeqsUpTo(StrChars, MaxChunk) }
    \cup { [kind |-> "bytes", data |-> d] : d \in SeqsUpTo(ByteValues, MaxChunk) }

\* LoggerWriter(logger, logging.INFO), LoggerWriter(logger, logging.ERROR)
LogNew ==
    /\ logState = "none"
    /\ \E level \in {"INFO", "ERROR"} : logLevel' = level
    /\ logState' = "open"
    /\ logBuf' = <<>>
    /\ UNCHANGED <<logLogged, logWrites, logReturn>>

\* write(message); the stream written to the writer is a text stream or a
\* byte stream.
LogWrite ==
    /\ logState = "open"
    /\ Len(logWrites) < MaxWrites
    /\ \E message \in Messages :
        /\ logWrites # <<>> => message.kind = logWrites[1].kind
        /\ LET r == LoggerWrite(logBuf, logLevel, message)
           IN /\ logBuf' = r.buf
              /\ logLogged' = logLogged \o r.logged
              /\ logReturn' = r.return
        /\ logWrites' = Append(logWrites, message)
    /\ UNCHANGED <<logState, logLevel>>

\* close()
LogClose ==
    /\ logState = "open"
    /\ logLogged' = IF strip(logBuf) # <<>>
                    THEN Append(logLogged, [level |-> logLevel, msg |-> strip(logBuf)])
                    ELSE logLogged
    /\ logBuf' = <<>>
    /\ logState' = "closed"
    /\ UNCHANGED <<logLevel, logWrites, logReturn>>

(***************************************************************************)
(* Container.with_new_digest called on a Container, and attribute          *)
(* assignments made to the returned object afterwards.                     *)
(***************************************************************************)

\* The Containers with_new_digest is called on: tagged, digest-addressed,
\* both, and neither.
Containers ==
    [registry : {"registry-1.docker.io", "ghcr.io"},
     namespace : {None, "library"},
     repository : {"image"},
     tag : {None, "latest", "v1"},
     digest : {None, "sha256:o"}]

\* The values assigned to an attribute of the result afterwards.
AttributeValues == {None, "changed"}

\* original = Container(...)
ContCreate ==
    /\ contPc = "idle"
    /\ \E c \in Containers :
        /\ contHeap' = [id \in {1} |-> c]
        /\ contSnapshot' = c
    /\ contOriginal' = 1
    /\ contPc' = "created"
    /\ UNCHANGED <<contResult, contDigest, contChanges>>

\* result = Container.with_new_digest(original, digest)
ContWithNewDigest ==
    /\ contPc = "created"
    /\ \E digest \in Digests :
        LET r == HeapWithNewDigest(contHeap, contOriginal, digest)
        IN /\ contHeap' = r.heap
           /\ contResult' = r.result
           /\ contDigest' = digest
    /\ contPc' = "returned"
    /\ UNCHANGED <<contOriginal, contSnapshot, contChanges>>

\* result.<field> = value
ContSetAttribute ==
    /\ contPc \in {"returned", "changed"}
    /\ contChanges < MaxCalls
    /\ \E f \in ContainerFields, v \in AttributeValues :
        contHeap' = [contHeap EXCEPT ![contResult][f] = v]
    /\ contChanges' = contChanges + 1
    /\ contPc' = "changed"
    /\ UNCHANGED <<contOriginal, contResult, contDigest, contSnapshot>>

(***************************************************************************)
(* The specifications: one per component, the others at rest.              *)
(***************************************************************************)
Idle ==
    \* Registry.pull
    /\ pullPc = "idle"
    /\ pullTarget = NoContainer
    /\ container = NoContainer
    /\ indexResponse = NoResponse
    /\ index = EmptyDict
    /\ platform = NoPlatform
    /\ scanPos = 0
    /\ examined = <<>>
    /\ requested = <<>>
    /\ pullError = None
    \* push_oci_image
    /\ pushPc = "idle"
    /\ layers = <<>>
    /\ manifests = <<>>
    /\ platformPos = 0
    /\ pushResponses = <<>>
    /\ indexUpload = NoResponse
    /\ pushResult = EmptyDict
    /\ pushError = None
    /\ registryStyle = [location |-> FALSE, content_digest |-> FALSE,
                        content_length |-> None]
    /\ stored = <<>>
    /\ requests = <<>>
    /\ pushArgs = EmptyDict
    /\ pushClientCalls = <<>>
    \* Registry methods
    /\ regCalls = 0
    /\ lastCall = [op |-> None]
    /\ wire = <<>>
    /\ returned = <<>>
    \* Platform
    /\ platCalls = 0
    /\ platCall = [op |-> None]
    \* Container
    /\ contPc = "idle"
    /\ contHeap = <<>>
    /\ contOriginal = 0
    /\ contResult = 0
    /\ contDigest = None
    /\ contSnapshot = NoContainer
    /\ contChanges = 0
    \* create_oci_image_index_manifest
    /\ imgCalls = 0
    /\ imgCall = [op |-> None]
    \* resolve_credentials
    /\ authCalls = 0
    /\ authCall = [op |-> None]
    \* pull_oci_image
    /\ stepPc = "idle"
    /\ stepArgs = EmptyDict
    /\ stepLocals = EmptyDict
    /\ stepEvents = <<>>
    /\ stepResult = EmptyDict
    /\ stepError = None
    \* create_tar_archive
    /\ buildPc = "idle"
    /\ buildArgs = EmptyDict
    /\ buildEntries = <<>>
    /\ buildResult = EmptyDict
    /\ buildError = None
    \* make_targz
    /\ archCalls = 0
    /\ archPrev = [op |-> None]
    /\ archLast = [op |-> None]
    /\ archDest = <<>>
    \* install_dependencies_for_archiving
    /\ instPc = "idle"
    /\ instArgs = [requirements_file |-> None]
    /\ instProcesses = <<>>
    \* create_oci_image_index_manifest, interleaved
    /\ idxHeap = [r \in {TemplateRef} |-> EmptyImageIndex]
    /\ idxCalls = [c \in Callers |-> [pc |-> "idle", via |-> None, manifests |-> <<>>,
                                     pos |-> 0, image_index |-> TemplateRef]]
    \* LoggerWriter
    /\ logState = "none"
    /\ logLevel = None
    /\ logBuf = <<>>
    /\ logLogged = <<>>
    /\ logWrites = <<>>
    /\ logReturn = 0

notPull ==
    <<pushVars, pushCallVars, regVars, platVars, contVars,
      imgVars, authVars, stepVars, buildVars, archVars,
      instVars,
      idxVars,
      logVars>>
notPush ==
    <<pullVars, regVars, platVars, contVars, imgVars, authVars, stepVars, buildVars, archVars,
      instVars,
      idxVars,
      logVars>>
notReg ==
    <<pullVars, pushVars, pushCallVars, platVars, contVars,
      imgVars, authVars, stepVars, buildVars, archVars,
      instVars,
      idxVars,
      logVars>>
notPlat ==
    <<pullVars, pushVars, pushCallVars, regVars, contVars,
      imgVars, authVars, stepVars, buildVars, archVars,
      instVars,
      idxVars,
      logVars>>
notCont ==
    <<pullVars, pushVars, pushCallVars, regVars, platVars,
      imgVars, authVars, stepVars, buildVars, archVars,
      instVars,
      idxVars,
      logVars>>
notImg ==
    <<pullVars, pushVars, pushCallVars, regVars, platVars,
      contVars, authVars, stepVars, buildVars, archVars,
      instVars,
      idxVars,
      logVars>>
notAuth ==
    <<pullVars, pushVars, pushCallVars, regVars, platVars,
      contVars, imgVars, stepVars, buildVars, archVars,
      instVars,
      idxVars,
      logVars>>
notBuild ==
    <<pullVars, pushVars, pushCallVars, regVars, platVars,
      contVars, imgVars, authVars, stepVars, archVars,
      instVars,
      idxVars,
      logVars>>
notArch ==
    <<pullVars, pushVars, pushCallVars, regVars, platVars,
      contVars, imgVars, authVars, stepVars, buildVars,
      instVars,
      idxVars,
      logVars>>
notInst ==
    <<pullVars, pushVars, pushCallVars, regVars, platVars,
      contVars, imgVars, authVars, stepVars, buildVars, archVars,
      idxVars,
      logVars>>
notIdx ==
    <<pullVars, pushVars, pushCallVars, regVars, platVars, contVars,
      imgVars, authVars, stepVars, buildVars, archVars, instVars,
      logVars>>
notLog ==
    <<pullVars, pushVars, pushCallVars, regVars, platVars, contVars,
      imgVars, authVars, stepVars, buildVars, archVars, instVars, idxVars>>
notStep ==
    <<pullVars, pushVars, pushCallVars, regVars, platVars,
      contVars, imgVars, authVars, buildVars, archVars,
      instVars,
      idxVars,
      logVars>>

NextPull ==
    \/ PullCall /\ UNCHANGED notPull
    \/ PullGetImageIndex /\ UNCHANGED notPull
    \/ PullDetectSystem /\ UNCHANGED notPull
    \/ PullScan /\ UNCHANGED notPull
    \/ PullGeneric /\ UNCHANGED notPull

SpecPull == Idle /\ [][NextPull]_vars

\* The body of push_oci_image after the client is constructed makes no call
\* of resolve_credentials, Registry(...) or client.login.
NextPush ==
    \/ PushCall /\ UNCHANGED notPush
    \/ PushSingle /\ UNCHANGED <<pushCallVars, notPush>>
    \/ PushMultiCheck /\ UNCHANGED <<pushCallVars, notPush>>
    \/ PushPlatform /\ UNCHANGED <<pushCallVars, notPush>>
    \/ PushAssemble /\ UNCHANGED <<pushCallVars, notPush>>
    \/ PushUploadIndex /\ UNCHANGED <<pushCallVars, notPush>>

SpecPush == Idle /\ [][NextPush]_vars

NextRegistry ==
    \/ RegUploadManifest /\ UNCHANGED notReg
    \/ RegUploadImageIndex /\ UNCHANGED notReg
    \/ RegGetManifest /\ UNCHANGED notReg
    \/ RegGetImageIndex /\ UNCHANGED notReg
    \/ RegExtractDigest /\ UNCHANGED notReg

SpecRegistry == Idle /\ [][NextRegistry]_vars

NextPlatform ==
    \/ PlatIsMatch /\ UNCHANGED notPlat
    \/ PlatFromStr /\ UNCHANGED notPlat
    \/ PlatDetectSystem /\ UNCHANGED notPlat
    \/ PlatValidateManifest /\ UNCHANGED notPlat

SpecPlatform == Idle /\ [][NextPlatform]_vars

NextContainer ==
    \/ ContCreate /\ UNCHANGED notCont
    \/ ContWithNewDigest /\ UNCHANGED notCont
    \/ ContSetAttribute /\ UNCHANGED notCont

SpecContainer == Idle /\ [][NextContainer]_vars

NextImage == ImgCreate /\ UNCHANGED notImg

SpecImage == Idle /\ [][NextImage]_vars

NextAuth ==
    \/ AuthResolve /\ UNCHANGED notAuth
    \/ AuthGetEcrToken /\ UNCHANGED notAuth

SpecAuth == Idle /\ [][NextAuth]_vars

NextPullStep ==
    \/ StepCall /\ UNCHANGED notStep
    \/ StepClient /\ UNCHANGED notStep
    \/ StepPull /\ UNCHANGED notStep

SpecPullStep == Idle /\ [][NextPullStep]_vars

NextBuild ==
    \/ BuildCall /\ UNCHANGED notBuild
    \/ BuildMakeTargz /\ UNCHANGED notBuild

SpecBuild == Idle /\ [][NextBuild]_vars

NextArchive ==
    \/ ArchMakeTargz /\ UNCHANGED notArch
    \/ ArchUnlink /\ UNCHANGED notArch

SpecArchive == Idle /\ [][NextArchive]_vars

NextInstall ==
    \/ InstallCall /\ UNCHANGED notInst
    \/ InstallRunProcess /\ UNCHANGED notInst

SpecInstall == Idle /\ [][NextInstall]_vars

NextIndex ==
    \/ \E c \in Callers : IdxCall(c) /\ UNCHANGED notIdx
    \/ \E c \in Callers : IdxAppend(c) /\ UNCHANGED notIdx
    \/ \E c \in Callers : IdxReturn(c) /\ UNCHANGED notIdx

SpecIndex == Idle /\ [][NextIndex]_vars

NextLogger ==
    \/ LogNew /\ UNCHANGED notLog
    \/ LogWrite /\ UNCHANGED notLog
    \/ LogClose /\ UNCHANGED notLog

SpecLogger == Idle /\ [][NextLogger]_vars

(***************************************************************************)
(* Properties of Registry.pull.                                            *)
(***************************************************************************)

\* Section 4.1 `matches`: each field of the filter is absent or equal to the
\* platform's value.
Matches(p, filter) ==
    \A f \in {"os", "architecture", "variant"} :
        f \in DOMAIN filter => p[f] = filter[f]

PlatformOf(entry) ==
    IF "platform" \in DOMAIN entry THEN entry.platform ELSE EmptyDict

\* The position of the first entry of ms matching host, 0 when there is none.
FirstMatch(ms, host) ==
    IF \E i \in 1..Len(ms) : Matches(host, PlatformOf(ms[i]))
    THEN CHOOSE i \in 1..Len(ms) :
            /\ Matches(host, PlatformOf(ms[i]))
            /\ \A j \in 1..(i - 1) : ~Matches(host, PlatformOf(ms[j]))
    ELSE 0

\* Registry.pull has left its try block with an index and a host platform.
IndexAndHostKnown ==
    /\ pullPc \in {"generic", "done", "raised"}
    /\ platform # NoPlatform

\* C1: once an index is retrieved and the host detected, the entries are
\* examined in list order up to the first one matching the host, and the
\* generic pull receives the original reference with the tag cleared and the
\* digest of that first matching entry; a later match is never used and the
\* original tag is not requested.
C1_FirstMatchingDigestRequested ==
    (/\ pullPc \in {"done", "raised"}
     /\ IndexAndHostKnown
     /\ FirstMatch(index.manifests, platform) # 0
     /\ "digest" \in DOMAIN index.manifests[FirstMatch(index.manifests, platform)])
    => LET first == FirstMatch(index.manifests, platform)
           digest == index.manifests[first].digest
       IN /\ examined = [i \in 1..first |-> i]
          /\ container = [name |-> pullTarget.name, tag |-> None, digest |-> digest]
          /\ requested = <<pullTarget.name, "@", digest>>

\* C1 witness: two entries match the host, with different digests, the target
\* is a tag, and the first entry's digest was requested.
C1_Witness ==
    /\ pullPc = "done"
    /\ IndexAndHostKnown
    /\ pullTarget.tag = "latest"
    /\ Len(index.manifests) = 2
    /\ FirstMatch(index.manifests, platform) = 1
    /\ Matches(platform, PlatformOf(index.manifests[2]))
    /\ "platform" \in DOMAIN index.manifests[1]
    /\ \A i \in 1..2 : "digest" \in DOMAIN index.manifests[i]
    /\ index.manifests[1].digest # index.manifests[2].digest
    /\ requested = <<pullTarget.name, "@", index.manifests[1].digest>>

\* The reference string of the target as it was given.
OriginalReference ==
    IF pullTarget.digest # None
    THEN <<pullTarget.name, "@", pullTarget.digest>>
    ELSE <<pullTarget.name, ":", pullTarget.tag>>

\* The image-index fetch failed: a non-success status, or a document that
\* does not satisfy the image-index schema.
IndexFetchFailed ==
    /\ pullPc \in {"detect", "scan", "generic", "done", "raised"}
    /\ \/ indexResponse.status_code \notin {200, 201, 202}
       \/ ~ValidImageIndex(indexResponse.json)

\* C2: a failed image-index fetch (non-success status or schema validation
\* failure) surfaces no error, and pull continues with the generic pull of
\* the original reference.
C2_IndexFailureFallsThrough ==
    IndexFetchFailed =>
        /\ pullError \in {None, "GenericPullError"}
        /\ container = pullTarget
        /\ pullPc \in {"generic", "done", "raised"}
        /\ pullPc # "generic" => requested = OriginalReference

\* C3: with an index retrieved and no entry matching the host, no error is
\* raised by the selection and the generic pull receives the original
\* reference: tag kept, no digest substituted.
C3_NoMatchKeepsOriginal ==
    (IndexAndHostKnown /\ FirstMatch(index.manifests, platform) = 0)
    => /\ pullError \in {None, "GenericPullError"}
       /\ container = pullTarget
       /\ examined = [i \in 1..Len(index.manifests) |-> i]
       /\ pullPc # "generic" => requested = OriginalReference

\* C3 witness: a two-entry index whose entries carry digests and none matches
\* the host, pulled by tag.
C3_Witness ==
    /\ pullPc = "done"
    /\ IndexAndHostKnown
    /\ Len(index.manifests) = 2
    /\ FirstMatch(index.manifests, platform) = 0
    /\ \A i \in 1..2 : "digest" \in DOMAIN index.manifests[i]
    /\ requested = <<pullTarget.name, ":", "latest">>

(***************************************************************************)
(* Properties of push_oci_image.                                           *)
(***************************************************************************)

IsManifestPut(r) == r.op = "upload_manifest"
IsAcceptedManifestPut(r) == r.op = "upload_manifest" /\ r.status = 201
IsPlatformManifestPut(r) ==
    r.op = "upload_manifest" /\ r.manifest.config.mediaType = config_media_type
IsIndexPut(r) == r.op = "upload_image_index"
IsReadBack(r) == r.op = "get_manifest"

\* The paths of the layers of an uploaded manifest, in the manifest's order.
LayerTitles(manifest) == [i \in 1..Len(manifest.layers) |-> manifest.layers[i].title]

\* The digest an upload response reports (section 4.7): the content-digest
\* header, else the last segment of Location.
ResponseDigest(response) ==
    IF "Docker-Content-Digest" \in DOMAIN response.headers
    THEN response.headers["Docker-Content-Digest"]
    ELSE response.headers["Location"][Len(response.headers["Location"])]

\* `layers` is a list of valid {platform, layers} records.
ValidRecordList(ls) ==
    \A i \in 1..Len(ls) :
        /\ "dict" \in DOMAIN ls[i]
        /\ {"platform", "layers"} \subseteq DOMAIN ls[i].dict
        /\ {"os", "architecture"} \subseteq DOMAIN ls[i].dict.platform

\* `layers` is a flat list of path strings.
FlatList(ls) == \A i \in 1..Len(ls) : "str" \in DOMAIN ls[i]

\* N manifest pushes, one per record in order, then one index of N entries in
\* the same order, entry i with push i's digest and record i's platform and
\* without layers and config.
OneManifestPerRecord ==
    LET puts == SelectSeq(requests, IsAcceptedManifestPut)
        indexPuts == SelectSeq(requests, IsIndexPut)
        N == Len(layers)
    IN /\ Len(puts) = N
       /\ Len(SelectSeq(requests, IsManifestPut)) = N
       /\ Len(pushResponses) = N
       /\ \A i \in 1..N : LayerTitles(puts[i].manifest) = layers[i].dict.layers
       /\ Len(indexPuts) = 1
       /\ Len(indexPuts[1].manifest.manifests) = N
       /\ \A i \in 1..N :
            LET entry == indexPuts[1].manifest.manifests[i] IN
            /\ entry.digest = ResponseDigest(pushResponses[i])
            /\ entry.platform = layers[i].dict.platform
            /\ "layers" \notin DOMAIN entry
            /\ "config" \notin DOMAIN entry

\* C4 as stated: a successful push of any list of N valid records performs N
\* manifest pushes in order and uploads one index of N entries in that order.
C4_AnyRecordList ==
    (pushPc = "done" /\ ValidRecordList(layers)) => OneManifestPerRecord

\* C4 amended: the same for a list of N >= 1 valid records (the empty list
\* also takes the single-manifest branch).
C4_OneManifestPerRecord ==
    (pushPc = "done" /\ ValidRecordList(layers) /\ Len(layers) >= 1)
    => OneManifestPerRecord

\* C4 witness: two records with the same platform and different layers were
\* pushed and the index holds both.
C4_Witness ==
    /\ pushPc = "done"
    /\ ValidRecordList(layers)
    /\ Len(layers) = 2
    /\ layers[1].dict.platform = layers[2].dict.platform
    /\ layers[1].dict.layers # layers[2].dict.layers
    /\ Len(requests[Len(requests)].manifest.manifests) = 2
    /\ requests[Len(requests)].manifest.manifests[1].digest
         # requests[Len(requests)].manifest.manifests[2].digest

C6_NoDigestNoSuccess ==
    /\ (\E i \in 1..Len(pushResponses) :
            extract_manifest_digest_from_upload_response(pushResponses[i]).error # None)
        => /\ pushPc = "raised"
           /\ pushError # None
           /\ pushResult = EmptyDict
           /\ Len(SelectSeq(requests, IsIndexPut)) = 0
    /\ (/\ Len(SelectSeq(requests, IsIndexPut)) > 0
        /\ extract_manifest_digest_from_upload_response(indexUpload).error # None)
        => /\ pushPc = "raised"
           /\ pushError # None
           /\ pushResult = EmptyDict

\* C6 witness: in a call with two records, the accepted push of the first
\* platform answered with a content-digest header and no Location, and the
\* call raised.
C6_Witness ==
    /\ Len(layers) = 2
    /\ Len(pushResponses) = 1
    /\ pushResponses[1].status_code = 201
    /\ "Location" \notin DOMAIN pushResponses[1].headers
    /\ "Docker-Content-Digest" \in DOMAIN pushResponses[1].headers
    /\ pushPc = "raised"

\* The index was uploaded and its response carried no digest.
IndexResponseWithoutDigest ==
    /\ Len(SelectSeq(requests, IsIndexPut)) > 0
    /\ indexUpload.status_code = 500
    /\ pushPc = "raised"

\* C8: a successful push of a flat list performs one manifest push holding
\* all the layers in list order, and the index has one entry with the digest
\* of that push's response and, as size, the integer of its Content-Length.
C8_FlatListOneEntry ==
    (pushPc = "done" /\ FlatList(layers)) =>
        LET puts == SelectSeq(requests, IsManifestPut)
            indexPuts == SelectSeq(requests, IsIndexPut)
        IN /\ Len(puts) = 1
           /\ Len(pushResponses) = 1
           /\ LayerTitles(puts[1].manifest) = [i \in 1..Len(layers) |-> layers[i].str]
           /\ Len(indexPuts) = 1
           /\ Len(indexPuts[1].manifest.manifests) = 1
           /\ indexPuts[1].manifest.manifests[1].digest = ResponseDigest(pushResponses[1])
           /\ "Content-Length" \in DOMAIN pushResponses[1].headers =>
                /\ pushResponses[1].headers["Content-Length"] = "512"
                    => indexPuts[1].manifest.manifests[1].size = 512
                /\ pushResponses[1].headers["Content-Length"] = "0"
                    => indexPuts[1].manifest.manifests[1].size = 0

\* C8 witness: two layers pushed as one manifest, Content-Length 512.
C8_Witness ==
    /\ pushPc = "done"
    /\ FlatList(layers)
    /\ Len(layers) = 2
    /\ "Content-Length" \in DOMAIN pushResponses[1].headers
    /\ pushResponses[1].headers["Content-Length"] = "512"
    /\ requests[Len(requests)].manifest.manifests[1].size = 512

\* C9: the config uploaded with the k-th platform record's manifest holds the
\* record's platform fields, rootfs.type = "layers" and one diff id per layer,
\* "sha256:" + the digest of the layer's decompressed tar stream, in the order
\* the layers are uploaded.
C9_ConfigDiffIds ==
    LET puts == SelectSeq(requests, IsPlatformManifestPut) IN
    \A k \in 1..Len(puts) :
        LET config == puts[k].manifest.config.data
            uploaded == LayerTitles(puts[k].manifest)
            rec == layers[k].dict
        IN /\ \A f \in DOMAIN rec.platform : config[f] = rec.platform[f]
           /\ config.rootfs.type = "layers"
           /\ uploaded = rec.layers
           /\ Len(config.rootfs.diff_ids) = Len(rec.layers)
           /\ \A i \in 1..Len(rec.layers) :
                config.rootfs.diff_ids[i] = "sha256:" \o Sha256Hex(Gunzip(uploaded[i]))

\* C9 witness: the second record, with a variant and two layers, was pushed.
C9_Witness ==
    LET puts == SelectSeq(requests, IsPlatformManifestPut) IN
    /\ Len(puts) = 2
    /\ puts[2].status = 201
    /\ Len(puts[2].manifest.layers) = 2
    /\ "variant" \in DOMAIN puts[2].manifest.config.data

(***************************************************************************)
(* Properties of the Registry methods.                                     *)
(***************************************************************************)

\* C7: the digest of an upload response is the content-digest header whenever
\* that header is present, the last segment of Location only when it is
\* absent, and the extraction fails when neither is present.
C7_ContentDigestPreferred ==
    (/\ lastCall.op = "extract_manifest_digest"
     /\ lastCall.response.status_code \in {200, 201, 202})
    => LET headers == lastCall.response.headers IN
       IF "Docker-Content-Digest" \in DOMAIN headers
       THEN /\ lastCall.result.error = None
            /\ lastCall.result.value = headers["Docker-Content-Digest"]
       ELSE IF "Location" \in DOMAIN headers
       THEN /\ lastCall.result.error = None
            /\ lastCall.result.value = headers["Location"][Len(headers["Location"])]
       ELSE lastCall.result.error # None

\* C10: every document sent by PUT satisfies the schema of its upload, every
\* document returned by get_manifest / get_image_index satisfies the schema
\* of its fetch, and a call on a document that fails its schema fails.
C10_NoInvalidDocumentPasses ==
    /\ \A i \in 1..Len(wire) :
        IF wire[i].schema = "image_index"
        THEN ValidImageIndex(wire[i].doc) ELSE ValidManifest(wire[i].doc)
    /\ \A i \in 1..Len(returned) :
        IF returned[i].schema = "image_index"
        THEN ValidImageIndex(returned[i].doc) ELSE ValidManifest(returned[i].doc)
    /\ (/\ lastCall.op \in {"upload_manifest", "upload_image_index",
                            "get_manifest", "get_image_index"}
        /\ ~(IF lastCall.schema = "image_index"
             THEN ValidImageIndex(lastCall.doc) ELSE ValidManifest(lastCall.doc)))
        => lastCall.error # None

\* C10 witness: an index whose entry's platform lacks architecture was
\* refused by upload_image_index after a valid one was sent, and nothing else
\* went out.
C10_Witness ==
    /\ lastCall.op = "upload_image_index"
    /\ "manifests" \in DOMAIN lastCall.doc
    /\ Len(lastCall.doc.manifests) = 1
    /\ ~ValidImageIndex(lastCall.doc)
    /\ lastCall.error = "ValidationError"
    /\ Len(wire) = 1
    /\ regCalls = 2

(***************************************************************************)
(* Properties of the Platform model.                                       *)
(***************************************************************************)

\* A field of a filter is absent when the key is missing or holds None.
FieldAbsent(filter, f) == f \notin DOMAIN filter \/ filter[f] = None

\* Section 4.1 `matches`, field by field.
MatchesFilter(p, filter) ==
    \A f \in {"os", "architecture", "variant"} :
        FieldAbsent(filter, f) \/ filter[f] = p[f]

LinuxAmd64 == [os |-> "linux", architecture |-> "amd64", variant |-> None]

\* C11: is_match returns true exactly when each of os, architecture and
\* variant is absent from the filter or equal (case-sensitively) to the
\* platform's value; {linux, amd64} matches {} and {os: linux} and matches
\* neither {os: windows} nor {architecture: arm64}.
C11_IsMatchExactly ==
    /\ platCall.op = "is_match" =>
            (platCall.result <=> MatchesFilter(platCall.self, platCall.other))
    /\ is_match(LinuxAmd64, EmptyDict)
    /\ is_match(LinuxAmd64, [os |-> "linux"])
    /\ ~is_match(LinuxAmd64, [os |-> "windows"])
    /\ ~is_match(LinuxAmd64, [architecture |-> "arm64"])

\* C11 witness: a filter whose os and architecture equal the platform's is
\* refused because of its variant alone.
C11_Witness ==
    /\ platCall.op = "is_match"
    /\ DOMAIN platCall.other = {"os", "architecture", "variant"}
    /\ platCall.other.os = platCall.self.os
    /\ platCall.other.architecture = platCall.self.architecture
    /\ platCall.other.variant = "v7"
    /\ platCall.self.variant = "v8"
    /\ ~platCall.result

\* The strings made of one to three non-empty '/'-free segments joined by '/'.
NonEmptySegments == SeqsUpTo(Chars \ {"/"}, MaxStrLen) \ {<<>>}

RECURSIVE JoinSlash(_)
JoinSlash(segs) ==
    IF Len(segs) = 1 THEN segs[1]
    ELSE segs[1] \o <<"/">> \o JoinSlash(Tail(segs))

\* from_str(s) returned a Platform made of exactly the segments segs.
ParsedAs(result, segs) ==
    /\ result.error = None
    /\ result.value.os = Str(segs[1])
    /\ result.value.architecture = (IF Len(segs) >= 2 THEN Str(segs[2]) ELSE None)
    /\ result.value.variant = (IF Len(segs) = 3 THEN Str(segs[3]) ELSE None)

\* C12: from_str succeeds on every string `os`, `os/arch`, `os/arch/variant`
\* and returns exactly the given segments, the others absent; from_str("")
\* fails.
C12_FromStrRoundTrips ==
    platCall.op = "from_str" =>
        /\ platCall.platform_str = <<>> => platCall.result.error # None
        /\ \A segs \in SeqsUpTo(NonEmptySegments, 3) \ {<<>>} :
                JoinSlash(segs) = platCall.platform_str =>
                    ParsedAs(platCall.result, segs)

\* C13: every Platform produced by from_str, detect_system or
\* PlatformManifest validation has os and architecture present; only the
\* variant may be absent.
C13_OsAndArchitecturePresent ==
    (/\ platCall.op \in {"from_str", "detect_system", "model_validate"}
     /\ platCall.result.error = None)
        => /\ platCall.result.value.os \notin {None, ""}
           /\ platCall.result.value.architecture \notin {None, ""}

\* C13 witness: from_str produced a Platform from a two-segment string, its
\* variant absent.
C13_Witness ==
    /\ platCall.op = "from_str"
    /\ platCall.result.error = None
    /\ Len(Segments(platCall.platform_str)) = 2
    /\ platCall.result.value.variant = None

(***************************************************************************)
(* Properties of Container.with_new_digest.                                *)
(***************************************************************************)

\* C14: with_new_digest returns a new reference with tag None, the given
\* digest and every other field equal to original's; original keeps its tag,
\* digest and other fields through the call and through later changes to
\* the result.
C14_WithNewDigestFrame ==
    /\ contPc = "returned" =>
        /\ contResult # contOriginal
        /\ contHeap[contResult].tag = None
        /\ contHeap[contResult].digest = contDigest
        /\ \A f \in ContainerFields \ {"tag", "digest"} :
                contHeap[contResult][f] = contSnapshot[f]
    /\ contPc \in {"returned", "changed"} =>
        contHeap[contOriginal] = contSnapshot

\* C14 witness: a tagged original without digest, and a result whose
\* registry and tag were assigned to after the call.
C14_Witness ==
    /\ contPc = "changed"
    /\ contSnapshot.tag = "latest"
    /\ contSnapshot.digest = None
    /\ contHeap[contResult].registry = "changed"
    /\ contHeap[contResult].tag = "changed"
    /\ contHeap[contOriginal].tag = "latest"

(***************************************************************************)
(* Properties of create_oci_image_index_manifest.                          *)
(***************************************************************************)

\* C15: the index returned has schemaVersion 2, the index media type, empty
\* annotations, and one entry per input manifest, in the input's order and
\* without deduplication, each entry being the manifest without its
\* schemaVersion, layers and config keys and with every other key kept.
C15_IndexIsInputWithoutThreeKeys ==
    imgCall.op = "create_oci_image_index_manifest" =>
        LET in == imgCall.manifests
            out == imgCall.result
        IN /\ DOMAIN out = {"schemaVersion", "mediaType", "manifests", "annotations"}
           /\ out.schemaVersion = 2
           /\ out.mediaType = "application/vnd.oci.image.index.v1+json"
           /\ out.annotations = EmptyDict
           /\ Len(out.manifests) = Len(in)
           /\ \A i \in 1..Len(in) :
                /\ DOMAIN out.manifests[i]
                        = DOMAIN in[i] \ {"schemaVersion", "layers", "config"}
                /\ \A key \in DOMAIN out.manifests[i] :
                        out.manifests[i][key] = in[i][key]

\* C15 witness: the same manifest, which has layers and config, given twice;
\* the index has two entries.
C15_Witness ==
    /\ imgCall.op = "create_oci_image_index_manifest"
    /\ imgCall.manifests = <<FullManifest("sha256:a"), FullManifest("sha256:a")>>
    /\ Len(imgCall.result.manifests) = 2
    /\ imgCall.result.manifests[1] = imgCall.result.manifests[2]

(***************************************************************************)
(* Properties of resolve_credentials.                                      *)
(***************************************************************************)

\* The shapes of a credentials argument, in the order of section 4.5.
IsCloudShape(c) == ~c.is_none /\ DOMAIN c.map \cap aws_keys # {}

IsStaticShape(c) ==
    /\ ~c.is_none
    /\ ~IsCloudShape(c)
    /\ {"username", "password"} \subseteq DOMAIN c.map

\* The provider token of env decodes to `username:password`.
TokenDecodes(env) ==
    /\ HasAuthData(env.response)
    /\ "authorizationToken" \in DOMAIN env.response["authorizationData"][1]
    /\ env.response["authorizationData"][1]["authorizationToken"].base64
    /\ \E i \in 1..Len(env.response["authorizationData"][1]["authorizationToken"].text) :
            env.response["authorizationData"][1]["authorizationToken"].text[i] = ":"

\* C16: the outcome of resolve_credentials is fixed by the shape of
\* `credentials`: None gives (None, None, None, "token"); a map with any
\* cloud key, whatever else it holds, calls the token exchange and gives
\* (exchanged user, exchanged password, host, "basic"); otherwise a map with
\* username and password gives (username, unwrapped password, registry_url
\* of the map if present else host, "token") without the exchange; every
\* other map raises the unsupported-format error.
C16_ShapeDecidesPath ==
    authCall.op = "resolve_credentials" =>
        LET c == authCall.credentials
            r == authCall.result
            host == authCall.registry_url
        IN /\ c.is_none =>
                /\ r.error = None
                /\ r.exchanges = 0
                /\ r.value = [username |-> None, password |-> None,
                              registry_url |-> None, auth_backend |-> "token"]
           /\ IsCloudShape(c) =>
                /\ r.exchanges = 1
                /\ r.error = None =>
                    /\ r.value.username = get_ecr_token(c.map, authCall.env).value.username
                    /\ r.value.password = get_ecr_token(c.map, authCall.env).value.password
                    /\ r.value.registry_url = host
                    /\ r.value.auth_backend = "basic"
           /\ IsStaticShape(c) =>
                /\ r.error = None
                /\ r.exchanges = 0
                /\ r.value.username = c.map["username"]
                /\ r.value.password = c.map["password"].value
                /\ r.value.registry_url =
                        (IF "registry_url" \in DOMAIN c.map
                         THEN c.map["registry_url"] ELSE host)
                /\ r.value.auth_backend = "token"
           /\ (~c.is_none /\ ~IsCloudShape(c) /\ ~IsStaticShape(c)) =>
                /\ r.error = "ValueError"
                /\ r.exchanges = 0

\* C16 witness: a map holding region_name together with username, a
\* SecretStr password and registry_url took the cloud path and returned the
\* host with the basic backend.
C16_Witness ==
    /\ authCall.op = "resolve_credentials"
    /\ ~authCall.credentials.is_none
    /\ DOMAIN authCall.credentials.map
            = {"region_name", "username", "password", "registry_url"}
    /\ authCall.credentials.map["password"].type = "SecretStr"
    /\ authCall.result.error = None
    /\ authCall.result.exchanges = 1
    /\ authCall.result.value.auth_backend = "basic"
    /\ authCall.result.value.registry_url = authCall.registry_url

\* C17: on the cloud path resolve_credentials returns the username and
\* password decoded from the provider token, or raises an error carrying
\* its cause: it raises when the SDK is missing, when hydration or the
\* provider call fails, when authorizationData is empty and when the token
\* does not decode to username:password; it never takes the static path and
\* never returns a missing username or password.
C17_CloudPathReturnsPairOrRaises ==
    (authCall.op = "resolve_credentials" /\ IsCloudShape(authCall.credentials)) =>
        LET r == authCall.result
            env == authCall.env
            failing == \/ ~env.sdk_installed
                       \/ env.failure # None
                       \/ ~HasAuthData(env.response)
                       \/ ~TokenDecodes(env)
        IN /\ r.exchanges = 1
           /\ failing <=> r.error # None
           /\ r.error # None =>
                /\ r.cause # None
                /\ "value" \notin DOMAIN r
           /\ r.error = None =>
                /\ r.value.username # None
                /\ r.value.password # None
                /\ r.value.auth_backend = "basic"
                /\ r.value.username = Str(SplitOnce(
                        env.response["authorizationData"][1]["authorizationToken"].text)[1])

\* C17 witness: a map with a cloud key and with username and password, a
\* provider that answers an empty authorizationData list, and a ValueError
\* raised from the inner error.
C17_Witness ==
    /\ authCall.op = "resolve_credentials"
    /\ IsCloudShape(authCall.credentials)
    /\ {"username", "password"} \subseteq DOMAIN authCall.credentials.map
    /\ authCall.env.sdk_installed
    /\ authCall.env.failure = None
    /\ authCall.env.response = [authorizationData |-> <<>>]
    /\ authCall.result.error = "ValueError"
    /\ authCall.result.cause = "ValueError"

(***************************************************************************)
(* Properties of pull_oci_image.                                           *)
(***************************************************************************)

\* The positions of the events of one kind in the event log.
EventsOf(op) == { i \in 1..Len(stepEvents) : stepEvents[i].op = op }

\* A username and a password were resolved.
BothResolved ==
    /\ stepLocals.username \notin {None, ""}
    /\ stepLocals.password \notin {None, ""}

\* What the caller passed as client_kwargs, as a dict.
GivenKwargs ==
    IF stepArgs.client_kwargs.is_none THEN EmptyDict ELSE stepArgs.client_kwargs.map

\* C18: pull_oci_image resolves the credentials against the registry host
\* parsed from name:tag before it constructs the client; it calls
\* client.login(username, password, hostname) exactly once, before
\* client.pull, exactly when a username and a password were resolved; with
\* no credentials the Registry gets no auth_backend from the step, login is
\* never called, and client.pull is still called with "name:tag" and
\* outdir = path, the files and the path being returned.
C18_ResolveThenLoginThenPull ==
    /\ stepPc # "idle" =>
        /\ EventsOf("resolve_credentials") = {1}
        /\ stepEvents[1].credentials = stepArgs.credentials
        /\ stepEvents[1].registry_url = ContainerRegistry(stepArgs.name)
        /\ \A i \in EventsOf("Registry") : i > 1
        /\ Cardinality(EventsOf("Registry")) <= 1
    /\ (stepPc \in {"client", "done"} \/ EventsOf("pull") # {}) =>
        /\ Cardinality(EventsOf("Registry")) = 1
        /\ Cardinality(EventsOf("login")) = (IF BothResolved THEN 1 ELSE 0)
        /\ \A i \in EventsOf("login") :
            /\ stepEvents[i].username = stepLocals.username
            /\ stepEvents[i].password = stepLocals.password
            /\ stepEvents[i].hostname = stepLocals.registry_url
            /\ \A j \in EventsOf("Registry") : j < i
            /\ \A j \in EventsOf("pull") : i < j
        /\ stepArgs.credentials.is_none =>
            /\ EventsOf("login") = {}
            /\ \A i \in EventsOf("Registry") : stepEvents[i].kwargs = GivenKwargs
    /\ stepPc = "done" =>
        /\ EventsOf("pull") = {Len(stepEvents)}
        /\ stepEvents[Len(stepEvents)].target = stepArgs.name \o ":" \o stepArgs.tag
        /\ stepEvents[Len(stepEvents)].outdir = stepResult.path
        /\ stepArgs.path \notin {None, ""} => stepResult.path = stepArgs.path
        /\ DOMAIN stepResult = {"files", "path"}

\* C18 witness: static credentials with their own
\* registry_url were resolved, the Registry got auth_backend "token", login
\* named that registry and came before the pull, which returned a file.
C18_Witness ==
    /\ stepPc = "done"
    /\ ~stepArgs.credentials.is_none
    /\ "registry_url" \in DOMAIN stepArgs.credentials.map
    /\ Len(stepEvents) = 4
    /\ stepEvents[2] = [op |-> "Registry", kwargs |-> [auth_backend |-> "token"]]
    /\ stepEvents[3].op = "login"
    /\ stepEvents[3].hostname = "custom-registry.com"
    /\ stepEvents[4].op = "pull"
    /\ stepResult.files = <<"l1.tar.gz">>

\* pull_oci_image returned after a call without credentials and without
\* client_kwargs: the Registry was constructed with no argument.
PullStepWithoutCredentials ==
    /\ stepPc = "done"
    /\ stepArgs.credentials.is_none
    /\ stepArgs.client_kwargs.is_none
    /\ stepArgs.path = None
    /\ stepEvents[2] = [op |-> "Registry", kwargs |-> EmptyDict]
    /\ Len(stepEvents) = 3
    /\ stepResult.path = Cwd

(***************************************************************************)
(* Properties of the credentials of push_oci_image.                        *)
(***************************************************************************)

\* The credentials the call was made with: None when the keyword was left out.
PushCredentialsGiven ==
    IF pushArgs.credentials.passed THEN pushArgs.credentials.value
    ELSE [is_none |-> TRUE]

\* C19: push_oci_image accepts `credentials`: it resolves them (None when
\* none are given) against the registry host of the target, constructs the
\* Registry with the resolved auth_backend merged into client_kwargs, and
\* logs in before any upload; with no credentials the Registry gets no
\* auth_backend and login is never called.
C19_PushResolvesCredentials ==
    pushPc # "idle" =>
        /\ pushError # "TypeError"
        /\ Len(pushClientCalls) >= 2
        /\ pushClientCalls[1].op = "resolve_credentials"
        /\ pushClientCalls[1].credentials = PushCredentialsGiven
        /\ pushClientCalls[2].op = "Registry"
        /\ PushCredentialsGiven.is_none =>
            /\ "auth_backend" \notin DOMAIN pushClientCalls[2].kwargs
            /\ \A i \in 1..Len(pushClientCalls) : pushClientCalls[i].op # "login"
        /\ ~PushCredentialsGiven.is_none =>
            "auth_backend" \in DOMAIN pushClientCalls[2].kwargs

(***************************************************************************)
(* Properties of create_tar_archive.                                       *)
(***************************************************************************)

\* The path of a file relative to the working directory of the call.
RelativeToWorkingDirectory(file) ==
    SubSeq(file, Len(Resolve(buildArgs.working_directory)) + 1, Len(file))

\* C20: every member of the archive is named archive_root joined with the
\* file's path relative to working_directory (the relative path alone when
\* no archive_root is given): the source "test.txt" is stored as "test.txt",
\* and as "custom/root/test.txt" under the archive_root "custom/root".
C20_EntryNameIsRootPlusRelativePath ==
    buildPc = "done" =>
        \A i \in 1..Len(buildEntries) :
            IsPrefix(Resolve(buildArgs.working_directory), buildEntries[i].file) =>
                buildEntries[i].name =
                    ArchiveRootPath(buildArgs.archive_root).parts
                        \o RelativeToWorkingDirectory(buildEntries[i].file)

(***************************************************************************)
(* Properties of the bytes make_targz writes.                              *)
(***************************************************************************)

\* Two successive builds were given the same items in the same order, with
\* the same contents.
SameFileSet ==
    /\ archPrev.op = "make_targz"
    /\ archLast.op = "make_targz"
    /\ archPrev.sources = archLast.sources
    /\ archPrev.content = archLast.content

\* C21: two builds over file sets with identical relative names and
\* contents, given in the same order, produce byte-identical archives
\* whatever the files' owner ids and names, modification time and permission
\* mode and whatever the time of each build.
C21_BuildsAreReproducible ==
    SameFileSet => archPrev.bytes = archLast.bytes

\* C29: after make_targz returns the destination file holds exactly the
\* bytes of the archive just built, whatever the path held before.
C29_DestinationHoldsTheArchive ==
    archLast.op = "make_targz" => archLast.dest_after = archLast.bytes

(***************************************************************************)
(* Properties of install_dependencies_for_archiving.                       *)
(***************************************************************************)

Tokens(command) == { command[i] : i \in 1..Len(command) }

\* token b directly follows token a somewhere in the command
Adjacent(command, a, b) ==
    \E i \in 1..(Len(command) - 1) : command[i] = a /\ command[i + 1] = b

Ends(command, tail) ==
    /\ Len(tail) <= Len(command)
    /\ SubSeq(command, Len(command) - Len(tail) + 1, Len(command)) = tail

\* C22: install_dependencies_for_archiving runs exactly one process; its
\* command holds the tokens "pip" and "install", the requirements file and
\* the target directory; it starts with the uv executable when uv is found
\* and otherwise with the interpreter, "-m", "pip"; "--python-platform
\* <platform>" is present exactly when a platform is given; the additional
\* pip arguments are appended.
C22_InstallCommand ==
    instPc = "done" =>
        /\ Len(instProcesses) = 1
        /\ LET command == instProcesses[1].command
           IN /\ {"pip", "install", instArgs.requirements_file,
                   instArgs.target_directory} \subseteq Tokens(command)
              /\ IF Truthy(instArgs.uv)
                 THEN command[1] = instArgs.uv
                 ELSE SubSeq(command, 1, 3) = <<sys_executable, "-m", "pip">>
              /\ Truthy(instArgs.platform)
                    <=> "--python-platform" \in Tokens(command)
              /\ Truthy(instArgs.platform)
                    => Adjacent(command, "--python-platform", instArgs.platform)
              /\ Ends(command, instArgs.additional_pip_args.value)

(***************************************************************************)
(* Properties of interleaved create_oci_image_index_manifest calls.        *)
(***************************************************************************)

\* The index caller c holds: under construction or returned.
IndexOf(c) == idxHeap[idxCalls[c].image_index]

EntryDigests(idx) == { idx.manifests[i].digest : i \in 1..Len(idx.manifests) }

\* C23: whatever the interleaving of the calls, the module-level
\* EmptyImageIndex keeps an empty manifests list and empty annotations, and
\* the index of one call holds no entry passed to another call: a returned
\* index holds exactly the entries of its own manifests, in order.
C23_NoStateSharedBetweenCalls ==
    /\ idxHeap[TemplateRef].manifests = <<>>
    /\ idxHeap[TemplateRef].annotations = EmptyDict
    /\ \A c \in Callers :
        idxCalls[c].pc # "idle" =>
            /\ EntryDigests(IndexOf(c)) \subseteq CallerDigests(c)
            /\ idxCalls[c].pc = "returned" =>
                IndexOf(c) = create_oci_image_index_manifest(idxCalls[c].manifests)

\* Two calls are inside their loops at once, each with an entry appended
\* and one more to come.
C23_Witness ==
    \A c \in Callers :
        /\ idxCalls[c].pc = "loop"
        /\ idxCalls[c].pos = 1
        /\ Len(idxCalls[c].manifests) = 2

(***************************************************************************)
(* Properties of the entry Registry.pull selects.                          *)
(***************************************************************************)

\* The entry declares an os and an architecture, equal to the host's.
DeclaresHost(entry, host) ==
    /\ "platform" \in DOMAIN entry
    /\ "os" \in DOMAIN entry.platform
    /\ "architecture" \in DOMAIN entry.platform
    /\ entry.platform.os = host.os
    /\ entry.platform.architecture = host.architecture

\* The position of the first entry of ms declaring the host's os and
\* architecture, 0 when there is none.
FirstDeclaringHost(ms, host) ==
    IF \E i \in 1..Len(ms) : DeclaresHost(ms[i], host)
    THEN CHOOSE i \in 1..Len(ms) :
            /\ DeclaresHost(ms[i], host)
            /\ \A j \in 1..(i - 1) : ~DeclaresHost(ms[j], host)
    ELSE 0

\* C24: with an index retrieved, the scan does not pass over the first
\* entry whose platform os and architecture equal the host's, whether or not
\* that platform carries a variant: when the scan reaches it, its digest is
\* the one pulled; no later entry is examined and the original reference is
\* not kept.
C24_HostEntryNeverSkipped ==
    (/\ pullPc \in {"done", "raised"}
     /\ IndexAndHostKnown
     /\ FirstDeclaringHost(index.manifests, platform) # 0
     /\ "digest" \in DOMAIN index.manifests[FirstDeclaringHost(index.manifests, platform)])
    => LET k == FirstDeclaringHost(index.manifests, platform)
       IN /\ Len(examined) <= k
          /\ Len(examined) = k =>
                container = with_new_digest(pullTarget, index.manifests[k].digest)

\* C25: the working reference is rewritten only to the digest of an entry
\* that declares an os and architecture equal to the host's, never to the
\* digest of an entry with no platform field or an empty one.
C25_OnlyDeclaredPlatformSelected ==
    (/\ pullPc \in {"done", "raised"}
     /\ IndexAndHostKnown
     /\ container # pullTarget)
    => DeclaresHost(index.manifests[Len(examined)], platform)

(***************************************************************************)
(* Properties of push_oci_image: the shape of `layers`, validation, and    *)
(* the tag.                                                                *)
(***************************************************************************)

FlatPushed ==
    \E i \in 1..Len(requests) :
        IsManifestPut(requests[i]) /\ ~IsPlatformManifestPut(requests[i])

PlatformPushed ==
    \E i \in 1..Len(requests) : IsPlatformManifestPut(requests[i])

\* C26: a push that returns successfully has uploaded an index of at least
\* one entry, and not both the flat-list path and the per-platform path
\* pushed manifests; a list fitting neither shape and the empty list do not
\* end in an empty index reported as success.
C26_SuccessMeansNonEmptyIndex ==
    pushPc = "done" =>
        LET indexPuts == SelectSeq(requests, IsIndexPut)
        IN /\ Len(indexPuts) = 1
           /\ Len(indexPuts[1].manifest.manifests) >= 1
           /\ ~(FlatPushed /\ PlatformPushed)

\* A record lacking layers or platform, or whose platform lacks os or
\* architecture.
InvalidRecord(rec) ==
    \/ ~({"platform", "layers"} \subseteq DOMAIN rec)
    \/ ~({"os", "architecture"} \subseteq DOMAIN rec.platform)

\* `layers` is a list of records of which one at least is invalid.
RecordsWithInvalid(ls) ==
    /\ \A i \in 1..Len(ls) : "dict" \in DOMAIN ls[i]
    /\ \E i \in 1..Len(ls) : InvalidRecord(ls[i].dict)

\* C27: given a list of records of which any one fails validation, whatever
\* its position, the push raises the validation error and no blob, manifest
\* or index request is made and nothing is stored.
C27_InvalidRecordRaisesBeforeUpload ==
    RecordsWithInvalid(layers) =>
        /\ requests = <<>>
        /\ stored = <<>>
        /\ pushResult = EmptyDict
        /\ pushPc \in {"single", "multi_check", "raised"}
        /\ pushPc = "raised" => pushError = "ValidationError"

\* C27 witness: the second of two records is the invalid one, the first is
\* valid, and the call raised.
C27_Witness ==
    /\ Len(layers) = 2
    /\ RecordsWithInvalid(layers)
    /\ ~InvalidRecord(layers[1].dict)
    /\ InvalidRecord(layers[2].dict)
    /\ pushPc = "raised"
    /\ pushError = "ValidationError"

\* C28: a push that fails leaves name:tag resolving to what it resolved to
\* before the call, and the tag only ever changes to the image index.
C28_TagOnlyMovesToIndex ==
    /\ pushPc = "raised" => TagResolvesTo(PreviousImage, requests) = PreviousImage
    /\ \/ TagResolvesTo(PreviousImage, requests) = PreviousImage
       \/ "manifests" \in DOMAIN TagResolvesTo(PreviousImage, requests)

(***************************************************************************)
(* Properties of LoggerWriter.                                             *)
(***************************************************************************)

RECURSIVE Concatenated(_)
\* The data of the messages written, concatenated.
Concatenated(ws) ==
    IF ws = <<>> THEN <<>> ELSE ws[1].data \o Concatenated(Tail(ws))

\* The concatenated input as text.
InputText ==
    IF logWrites # <<>> /\ logWrites[1].kind = "bytes"
    THEN decode(Concatenated(logWrites))
    ELSE Concatenated(logWrites)

Newlines(text) == { i \in 1..Len(text) : text[i] = "\n" }

\* The position of the k-th newline of text; 0 for k = 0.
NewlineAt(text, k) ==
    IF k = 0 THEN 0
    ELSE CHOOSE p \in Newlines(text) :
            Cardinality({ q \in Newlines(text) : q <= p }) = k

\* The newline-terminated lines of text, and what follows the last newline.
TerminatedLines(text) ==
    [k \in 1..Cardinality(Newlines(text)) |->
        SubSeq(text, NewlineAt(text, k - 1) + 1, NewlineAt(text, k) - 1)]

UnterminatedTail(text) ==
    SubSeq(text, NewlineAt(text, Cardinality(Newlines(text))) + 1, Len(text))

NonBlank(line) == \E i \in 1..Len(line) : line[i] \notin Whitespace

\* A line without the white space around it.
Trimmed(line) ==
    LET ink == { i \in 1..Len(line) : line[i] \notin Whitespace }
    IN IF ink = {} THEN <<>>
       ELSE SubSeq(line, CHOOSE i \in ink : \A j \in ink : i <= j,
                         CHOOSE i \in ink : \A j \in ink : i >= j)

\* What is to be logged by now: the non-blank terminated lines of the input
\* so far, in order, and after close the non-blank tail.
ExpectedLines ==
    LET lines == SelectSeq(TerminatedLines(InputText), NonBlank)
        tail == UnterminatedTail(InputText)
    IN [i \in 1..Len(lines) |-> Trimmed(lines[i])]
        \o (IF logState = "closed" /\ NonBlank(tail) THEN <<Trimmed(tail)>> ELSE <<>>)

\* C30: after every write the records logged are the non-blank
\* newline-terminated lines of the concatenated input, once each and in
\* order, however the input was split into writes; the non-blank
\* unterminated tail is logged once, at close and not before; after close the
\* buffer is empty.
C30_EachLineLoggedOnce ==
    logState # "none" =>
        /\ [i \in 1..Len(logLogged) |-> Trimmed(logLogged[i].msg)] = ExpectedLines
        /\ logState = "closed" => logBuf = <<>>

====
